---------------------------- MODULE Spec2Model ----------------------------
(***************************************************************************)
(* The storage/identity layer of the hospital management system: the       *)
(* in-memory repository (MemStorage, src/server/storage.ts) and the        *)
(* durable repository (DatabaseStorage, src/unnamed/part_001) over the     *)
(* schema of src/unnamed/part_002.                                         *)
(*                                                                         *)
(* Both repositories keep the same five collections, so one set of         *)
(* variables holds them; impl says which class the exported `storage`      *)
(* object is.  A collection is a function from primary key to record; a    *)
(* record is a function from field names to values, so that the object     *)
(* spread {...a, ...b} of the source is the operator Merge.                *)
(*                                                                         *)
(* A user id is the string prefix ++ suffix.  It is kept as the pair of    *)
(* its prefix and the sequence of its remaining characters (decimal        *)
(* digits), so that padStart, substring(3) and parseInt are computed on    *)
(* characters and not assumed to invert each other.                        *)
(*                                                                         *)
(* Of a user's free-text columns firstName, lastName, phone and address    *)
(* only firstName is kept: the four are copied by the same spread and are  *)
(* read by no repository operation.  Likewise date, time and reason of an  *)
(* appointment are represented by reason, and specialization and           *)
(* licenseNumber of a doctor by licenseNumber.                             *)
(***************************************************************************)
EXTENDS Integers, Sequences, FiniteSets, TLC

VARIABLES impl, users, doctors, patients, appointments, specializations,
          idCounters, currentAppointmentId, currentSpecializationId, last,
          calls, twin, boot

vars == <<impl, users, doctors, patients, appointments, specializations,
          idCounters, currentAppointmentId, currentSpecializationId, last,
          calls, twin, boot>>

collections == <<users, doctors, patients, appointments, specializations>>

counters == <<idCounters, currentAppointmentId, currentSpecializationId>>

----------------------------------------------------------------------------
(* Bounds of the model *)

\* largest number in the id of a user createUser stores
MaxSuffix == 2

\* largest number in an id a bare generateUserId call returns
MaxIssued == 3

\* largest appointment id handed out
MaxAppointments == 2

\* the largest id createSpecialization assigns outside the bootstrap
MaxSpecializationId == 8

----------------------------------------------------------------------------
(* JavaScript values *)

\* the value `undefined`, as a result or as a property value
Undefined == [undefined |-> TRUE]

\* the value `null` of a nullable text column
Null == "<null>"

\* a property that is absent from an object reads as this
Absent == "<undefined>"

\* JavaScript truthiness of a string-or-null-or-undefined value
TruthyStr(s) == s \notin {"", Null, Absent}

\* JavaScript truthiness of a number
TruthyNum(n) == n # 0

\* o[k] of JavaScript for a text property
Get(o, k) == IF k \in DOMAIN o THEN o[k] ELSE Absent

\* the object spread {...a, ...b}
Merge(a, b) ==
  [k \in (DOMAIN a) \cup (DOMAIN b) |-> IF k \in DOMAIN b THEN b[k] ELSE a[k]]

\* a normal return and a thrown error
Ok(v) == [ok |-> TRUE, val |-> v]

Throw(e) == [ok |-> FALSE, err |-> e]

----------------------------------------------------------------------------
(* Strings of decimal digits *)

RECURSIVE ToDigits(_)
\* Number.prototype.toString() of a non-negative integer
ToDigits(n) == IF n < 10 THEN <<n>> ELSE ToDigits(n \div 10) \o <<n % 10>>

RECURSIVE PadStart(_, _, _)
\* String.prototype.padStart(len, ch)
PadStart(s, len, ch) == IF Len(s) >= len THEN s ELSE PadStart(<<ch>> \o s, len, ch)

\* parseInt's answer for a string that does not start with a digit
NaN == -1

RECURSIVE ParseDigits(_, _)
ParseDigits(s, acc) ==
  IF s = <<>> THEN acc ELSE ParseDigits(Tail(s), 10 * acc + Head(s))

\* parseInt of a string of digits
ParseInt(s) == IF s = <<>> THEN NaN ELSE ParseDigits(s, 0)

\* a > b of JavaScript where a may be NaN
GreaterThan(a, b) == a # NaN /\ a > b

----------------------------------------------------------------------------
(* User ids *)

Roles == {"admin", "doctor", "receptionist", "patient"}

prefixes ==
  [admin |-> "ADM", doctor |-> "DOC", receptionist |-> "REC", patient |-> "PAT"]

\* names every object literal inherits from Object.prototype
ObjectPrototypeKeys ==
  {"constructor", "toString", "valueOf", "hasOwnProperty", "__proto__"}

\* what an inherited member prints as inside a template string
InheritedMember == "function () { [native code] }"

\* prefixes[role as keyof typeof prefixes]: own keys first, then the prototype
PrefixLookup(role) ==
  IF role \in DOMAIN prefixes THEN prefixes[role]
  ELSE IF role \in ObjectPrototypeKeys THEN InheritedMember
  ELSE Absent

\* the template string `${prefix}${counter.toString().padStart(4, '0')}`
FormatId(prefix, counter) ==
  [prefix |-> prefix, suffix |-> PadStart(ToDigits(counter), 4, 0)]

\* parseInt(user.id.substring(3)): the three letters are cut off only when
\* the prefix has three; otherwise letters remain and parseInt gives NaN
ParseSuffix(id) == IF Len(id.prefix) = 3 THEN ParseInt(id.suffix) ELSE NaN

----------------------------------------------------------------------------
(* The repository's state as one value, so that an operation is a function  *)
(* from a state and its arguments to a new state and a result, and a        *)
(* handler that awaits several operations is their composition.             *)

Cur ==
  [users |-> users, doctors |-> doctors, patients |-> patients,
   appointments |-> appointments, specializations |-> specializations,
   idCounters |-> idCounters, currentAppointmentId |-> currentAppointmentId,
   currentSpecializationId |-> currentSpecializationId]

\* the empty function: a new Map(), an empty table
Empty == <<>>

\* Map.prototype.set(k, v); a later set of the same key replaces the value
MapSet(m, k, v) == [x \in (DOMAIN m) \cup {k} |-> IF x = k THEN v ELSE m[x]]

\* Map.prototype.get(k), and a SELECT ... WHERE id = k
MapGet(m, k) == IF k \in DOMAIN m THEN m[k] ELSE Undefined

\* the constructor's fields, before initializeDefaults runs
Constructed ==
  [users |-> Empty, doctors |-> Empty, patients |-> Empty,
   appointments |-> Empty, specializations |-> Empty,
   idCounters |-> [admin |-> 1, doctor |-> 1, receptionist |-> 1, patient |-> 1],
   currentAppointmentId |-> 1, currentSpecializationId |-> 1]

\* a step's outcome
Res(st, out) == [st |-> st, out |-> out]

----------------------------------------------------------------------------
(* generateUserId *)

\* the counter read as if the map never held it
MemCounterAlwaysOne(st, role) == 1

\* this.idCounters.get(role) || 1
MemCounter(st, role) ==
  IF role \in DOMAIN st.idCounters /\ TruthyNum(st.idCounters[role])
  THEN st.idCounters[role] ELSE 1

\* generateUserId without `this.idCounters.set(role, counter + 1)`
MemGenerateUserIdNoIncrement(st, role) ==
  LET prefix == PrefixLookup(role)
      counter == MemCounter(st, role)
  IN IF ~TruthyStr(prefix) THEN Res(st, Throw("Invalid role"))
     ELSE Res(st, Ok(FormatId(prefix, counter)))

MemGenerateUserId(st, role) ==
  LET prefix == PrefixLookup(role)
      counter == MemCounter(st, role)
  IN IF ~TruthyStr(prefix) THEN Res(st, Throw("Invalid role"))
     ELSE Res([st EXCEPT !.idCounters = MapSet(@, role, counter + 1)],
              Ok(FormatId(prefix, counter)))

\* SELECT id FROM users WHERE id LIKE prefix || '%'
IdsLike(st, prefix) == {id \in DOMAIN st.users : id.prefix = prefix}

RECURSIVE MaxNumberOver(_, _)
\* the loop that keeps the greatest parsed suffix, from maxNumber = acc
MaxNumberOver(ids, acc) ==
  IF ids = {} THEN acc
  ELSE LET id == CHOOSE x \in ids : TRUE
           numberPart == ParseSuffix(id)
       IN MaxNumberOver(ids \ {id},
                        IF GreaterThan(numberPart, acc) THEN numberPart ELSE acc)

DbGenerateUserId(st, role) ==
  LET prefix == PrefixLookup(role)
      maxNumber == MaxNumberOver(IdsLike(st, prefix), 0)
  IN IF ~TruthyStr(prefix) THEN Res(st, Throw("Invalid role"))
     ELSE Res(st, Ok(FormatId(prefix, maxNumber + 1)))

generateUserId(im, st, role) ==
  IF im = "mem" THEN MemGenerateUserId(st, role) ELSE DbGenerateUserId(st, role)

----------------------------------------------------------------------------
(* Users *)

\* users.email is UNIQUE: some other row already has this email
EmailTaken(st, id, email) ==
  \E k \in DOMAIN st.users : k # id /\ st.users[k].email = email

\* the constraint an INSERT INTO users violates, or "" when it goes through
UsersInsertError(st, row) ==
  IF row.id \in DOMAIN st.users THEN "users_pkey"
  ELSE IF EmailTaken(st, row.id, row.email) THEN "users_email_unique"
  ELSE ""

\* the row with status: 'active' whatever the caller supplied
NewUserAlwaysActive(in, id, now) ==
  Merge(in, [id |-> id, status |-> "active", createdAt |-> now])

\* the row createUser builds: {...insertUser, id, status: ... || 'active', createdAt}
NewUser(in, id, now) ==
  Merge(in, [id |-> id,
             status |-> IF TruthyStr(Get(in, "status")) THEN in.status ELSE "active",
             createdAt |-> now])

MemCreateUser(st, in, now) ==
  LET g == MemGenerateUserId(st, in.role)
  IN IF ~g.out.ok THEN g
     ELSE LET user == NewUser(in, g.out.val, now)
          IN Res([g.st EXCEPT !.users = MapSet(@, user.id, user)], Ok(user))

DbCreateUser(st, in, now) ==
  LET g == DbGenerateUserId(st, in.role)
  IN IF ~g.out.ok THEN g
     ELSE LET user == NewUser(in, g.out.val, now)
              err == UsersInsertError(g.st, user)
          IN IF err # "" THEN Res(g.st, Throw(err))
             ELSE Res([g.st EXCEPT !.users = MapSet(@, user.id, user)], Ok(user))

createUser(im, st, in, now) ==
  IF im = "mem" THEN MemCreateUser(st, in, now) ELSE DbCreateUser(st, in, now)

\* updateUser storing the updates as a new record when the id is unknown
MemUpdateUserUpsert(st, id, updates) ==
  LET updatedUser == IF id \in DOMAIN st.users THEN Merge(st.users[id], updates)
                     ELSE updates
  IN Res([st EXCEPT !.users = MapSet(@, id, updatedUser)], Ok(updatedUser))

MemUpdateUser(st, id, updates) ==
  IF id \notin DOMAIN st.users THEN Res(st, Ok(Undefined))
  ELSE LET updatedUser == Merge(st.users[id], updates)
       IN Res([st EXCEPT !.users = MapSet(@, id, updatedUser)], Ok(updatedUser))

DbUpdateUser(st, id, updates) ==
  IF id \notin DOMAIN st.users THEN Res(st, Ok(Undefined))
  ELSE LET user == Merge(st.users[id], updates)
       IN IF EmailTaken(st, id, user.email) THEN Res(st, Throw("users_email_unique"))
          ELSE Res([st EXCEPT !.users = MapSet(@, id, user)], Ok(user))

updateUser(im, st, id, updates) ==
  IF im = "mem" THEN MemUpdateUser(st, id, updates) ELSE DbUpdateUser(st, id, updates)

\* getUser(id)
getUser(st, id) == MapGet(st.users, id)

\* getUserByEmail(email): the first user with that email, in insertion order
\* (ids of one role are inserted in increasing order; across roles any
\* match serves the callers, which only test the result for presence)
getUserByEmail(st, email) ==
  IF \E k \in DOMAIN st.users : st.users[k].email = email
  THEN st.users[CHOOSE k \in DOMAIN st.users : st.users[k].email = email]
  ELSE Undefined

----------------------------------------------------------------------------
(* Doctors and patients *)

getDoctor(st, id) == MapGet(st.doctors, id)

getPatient(st, id) == MapGet(st.patients, id)

\* the record createDoctor builds: {...insertDoctor, id, experience: ... || 0}
NewDoctor(in) ==
  Merge(in, [id |-> in.userId,
             experience |-> IF "experience" \in DOMAIN in /\ TruthyNum(in.experience)
                            THEN in.experience ELSE 0])

MemCreateDoctor(st, in) ==
  LET doctor == NewDoctor(in)
  IN Res([st EXCEPT !.doctors = MapSet(@, doctor.id, doctor)], Ok(doctor))

\* the doctors table without its foreign key
DoctorsInsertErrorNoForeignKey(st, row) ==
  IF row.id \in DOMAIN st.doctors THEN "doctors_pkey" ELSE ""

\* doctors.id is the primary key; doctors.user_id REFERENCES users(id)
DoctorsInsertError(st, row) ==
  IF row.id \in DOMAIN st.doctors THEN "doctors_pkey"
  ELSE IF row.userId \notin DOMAIN st.users THEN "doctors_user_id_fk"
  ELSE ""

DbCreateDoctor(st, in) ==
  LET doctor == NewDoctor(in)
      err == DoctorsInsertError(st, doctor)
  IN IF err # "" THEN Res(st, Throw(err))
     ELSE Res([st EXCEPT !.doctors = MapSet(@, doctor.id, doctor)], Ok(doctor))

createDoctor(im, st, in) ==
  IF im = "mem" THEN MemCreateDoctor(st, in) ELSE DbCreateDoctor(st, in)

\* updateDoctor storing the supplied fields alone
MemUpdateDoctorReplaces(st, id, updates) ==
  IF id \notin DOMAIN st.doctors THEN Res(st, Ok(Undefined))
  ELSE LET updatedDoctor == Merge([id |-> id], updates)
       IN Res([st EXCEPT !.doctors = MapSet(@, id, updatedDoctor)], Ok(updatedDoctor))

MemUpdateDoctor(st, id, updates) ==
  IF id \notin DOMAIN st.doctors THEN Res(st, Ok(Undefined))
  ELSE LET updatedDoctor == Merge(st.doctors[id], updates)
       IN Res([st EXCEPT !.doctors = MapSet(@, id, updatedDoctor)], Ok(updatedDoctor))

DbUpdateDoctor(st, id, updates) ==
  IF id \notin DOMAIN st.doctors THEN Res(st, Ok(Undefined))
  ELSE LET doctor == Merge(st.doctors[id], updates)
       IN IF doctor.userId \notin DOMAIN st.users
          THEN Res(st, Throw("doctors_user_id_fk"))
          ELSE Res([st EXCEPT !.doctors = MapSet(@, id, doctor)], Ok(doctor))

updateDoctor(im, st, id, updates) ==
  IF im = "mem" THEN MemUpdateDoctor(st, id, updates)
  ELSE DbUpdateDoctor(st, id, updates)

\* the record createPatient builds; emergencyContact is treated as bloodType is
NewPatient(in) ==
  Merge(in, [id |-> in.userId,
             bloodType |-> IF TruthyStr(Get(in, "bloodType")) THEN in.bloodType
                           ELSE Null])

MemCreatePatient(st, in) ==
  LET patient == NewPatient(in)
  IN Res([st EXCEPT !.patients = MapSet(@, patient.id, patient)], Ok(patient))

\* patients.id is the primary key; patients.user_id REFERENCES users(id)
PatientsInsertError(st, row) ==
  IF row.id \in DOMAIN st.patients THEN "patients_pkey"
  ELSE IF row.userId \notin DOMAIN st.users THEN "patients_user_id_fk"
  ELSE ""

DbCreatePatient(st, in) ==
  LET patient == NewPatient(in)
      err == PatientsInsertError(st, patient)
  IN IF err # "" THEN Res(st, Throw(err))
     ELSE Res([st EXCEPT !.patients = MapSet(@, patient.id, patient)], Ok(patient))

createPatient(im, st, in) ==
  IF im = "mem" THEN MemCreatePatient(st, in) ELSE DbCreatePatient(st, in)

MemUpdatePatient(st, id, updates) ==
  IF id \notin DOMAIN st.patients THEN Res(st, Ok(Undefined))
  ELSE LET updatedPatient == Merge(st.patients[id], updates)
       IN Res([st EXCEPT !.patients = MapSet(@, id, updatedPatient)],
              Ok(updatedPatient))

DbUpdatePatient(st, id, updates) ==
  IF id \notin DOMAIN st.patients THEN Res(st, Ok(Undefined))
  ELSE LET patient == Merge(st.patients[id], updates)
       IN IF patient.userId \notin DOMAIN st.users
          THEN Res(st, Throw("patients_user_id_fk"))
          ELSE Res([st EXCEPT !.patients = MapSet(@, id, patient)], Ok(patient))

updatePatient(im, st, id, updates) ==
  IF im = "mem" THEN MemUpdatePatient(st, id, updates)
  ELSE DbUpdatePatient(st, id, updates)

\* getDoctors(): each doctor whose owning user is found, with that user.
\* The result is kept as the set of its entries: entries of different
\* doctors differ in id, so no entry is lost, only the order.
MemGetDoctors(st) ==
  {Merge(st.doctors[d], [user |-> st.users[st.doctors[d].userId]]) :
     d \in {k \in DOMAIN st.doctors : getUser(st, st.doctors[k].userId) # Undefined}}

\* doctors INNER JOIN users ON doctors.user_id = users.id
DbGetDoctors(st) ==
  {Merge(st.doctors[p[1]], [user |-> st.users[p[2]]]) :
     p \in {q \in (DOMAIN st.doctors) \X (DOMAIN st.users) :
              st.doctors[q[1]].userId = q[2]}}

getDoctors(im, st) == IF im = "mem" THEN MemGetDoctors(st) ELSE DbGetDoctors(st)

MemGetPatients(st) ==
  {Merge(st.patients[d], [user |-> st.users[st.patients[d].userId]]) :
     d \in {k \in DOMAIN st.patients : getUser(st, st.patients[k].userId) # Undefined}}

DbGetPatients(st) ==
  {Merge(st.patients[p[1]], [user |-> st.users[p[2]]]) :
     p \in {q \in (DOMAIN st.patients) \X (DOMAIN st.users) :
              st.patients[q[1]].userId = q[2]}}

getPatients(im, st) == IF im = "mem" THEN MemGetPatients(st) ELSE DbGetPatients(st)

----------------------------------------------------------------------------
(* Appointments *)

getAppointment(st, id) == MapGet(st.appointments, id)

\* the values createAppointment fills in beside the caller's
AppointmentDefaults(in, now) ==
  [status |-> IF TruthyStr(Get(in, "status")) THEN in.status ELSE "scheduled",
   type |-> IF TruthyStr(Get(in, "type")) THEN in.type ELSE "consultation",
   duration |-> IF "duration" \in DOMAIN in /\ TruthyNum(in.duration)
                THEN in.duration ELSE 30,
   notes |-> IF TruthyStr(Get(in, "notes")) THEN in.notes ELSE Null,
   createdAt |-> now]

MemCreateAppointment(st, in, now) ==
  LET id == st.currentAppointmentId
      appointment == Merge(Merge(in, [id |-> id]), AppointmentDefaults(in, now))
  IN Res([st EXCEPT !.currentAppointmentId = id + 1,
                    !.appointments = MapSet(@, id, appointment)],
         Ok(appointment))

\* appointments.id is the primary key; patient_id REFERENCES patients(id),
\* doctor_id REFERENCES doctors(id)
AppointmentsRowError(st, key, row) ==
  IF row.id # key /\ row.id \in DOMAIN st.appointments THEN "appointments_pkey"
  ELSE IF row.patientId \notin DOMAIN st.patients THEN "appointments_patient_id_fk"
  ELSE IF row.doctorId \notin DOMAIN st.doctors THEN "appointments_doctor_id_fk"
  ELSE ""

\* id is a serial column: the sequence has moved on also when the INSERT fails
DbCreateAppointment(st, in, now) ==
  LET id == st.currentAppointmentId
      appointment == Merge(Merge(in, AppointmentDefaults(in, now)), [id |-> id])
      err == AppointmentsRowError(st, 0, appointment)
      st1 == [st EXCEPT !.currentAppointmentId = id + 1]
  IN IF err # "" THEN Res(st1, Throw(err))
     ELSE Res([st1 EXCEPT !.appointments = MapSet(@, id, appointment)],
              Ok(appointment))

createAppointment(im, st, in, now) ==
  IF im = "mem" THEN MemCreateAppointment(st, in, now)
  ELSE DbCreateAppointment(st, in, now)

\* an update that rebuilds the record and loses its notes
MemUpdateAppointmentDropsNotes(st, id, updates) ==
  IF id \notin DOMAIN st.appointments THEN Res(st, Ok(Undefined))
  ELSE LET updatedAppointment ==
             Merge(Merge(st.appointments[id], updates), [notes |-> Null])
       IN Res([st EXCEPT !.appointments = MapSet(@, id, updatedAppointment)],
              Ok(updatedAppointment))

\* an update in which the stored fields win over the supplied ones
MemUpdateAppointmentKeepsStored(st, id, updates) ==
  IF id \notin DOMAIN st.appointments THEN Res(st, Ok(Undefined))
  ELSE LET updatedAppointment == Merge(updates, st.appointments[id])
       IN Res([st EXCEPT !.appointments = MapSet(@, id, updatedAppointment)],
              Ok(updatedAppointment))

MemUpdateAppointment(st, id, updates) ==
  IF id \notin DOMAIN st.appointments THEN Res(st, Ok(Undefined))
  ELSE LET updatedAppointment == Merge(st.appointments[id], updates)
       IN Res([st EXCEPT !.appointments = MapSet(@, id, updatedAppointment)],
              Ok(updatedAppointment))

\* the table without the row of key k
MapRemove(m, k) == [x \in (DOMAIN m) \ {k} |-> m[x]]

\* cancelling as a DELETE of the row
DbUpdateAppointmentDeletes(st, id, updates) ==
  IF id \notin DOMAIN st.appointments THEN Res(st, Ok(Undefined))
  ELSE Res([st EXCEPT !.appointments = MapRemove(@, id)],
           Ok(Merge(st.appointments[id], updates)))

\* UPDATE appointments SET updates WHERE id = id RETURNING *
DbUpdateAppointment(st, id, updates) ==
  IF id \notin DOMAIN st.appointments THEN Res(st, Ok(Undefined))
  ELSE LET appointment == Merge(st.appointments[id], updates)
           err == AppointmentsRowError(st, id, appointment)
       IN IF err # "" THEN Res(st, Throw(err))
          ELSE Res([st EXCEPT !.appointments =
                       MapSet(MapRemove(@, id), appointment.id, appointment)],
                   Ok(appointment))

updateAppointment(im, st, id, updates) ==
  IF im = "mem" THEN MemUpdateAppointment(st, id, updates)
  ELSE DbUpdateAppointment(st, id, updates)

RECURSIVE Ascending(_)
\* the keys of the appointments in the order the listing visits them: a Map
\* iterates in insertion order, and appointment keys are inserted in
\* increasing order
Ascending(S) ==
  IF S = {} THEN <<>>
  ELSE LET m == CHOOSE x \in S : \A y \in S : x <= y
       IN <<m>> \o Ascending(S \ {m})

\* the entry getAppointments pushes for one appointment, or Undefined when
\* patient && doctor && doctorUser fails
MemAppointmentDetails(st, appointment) ==
  LET patient == getUser(st, appointment.patientId)
      doctor == getDoctor(st, appointment.doctorId)
      doctorUser == IF doctor # Undefined THEN getUser(st, doctor.userId)
                    ELSE Undefined
  IN IF patient # Undefined /\ doctor # Undefined /\ doctorUser # Undefined
     THEN Merge(appointment,
                [patient |-> patient,
                 doctor |-> Merge(doctorUser, [doctorInfo |-> doctor])])
     ELSE Undefined

\* a row of appointments JOIN patients JOIN doctors JOIN users (the patient's
\* user), then the doctor's user looked up; Undefined when a join finds no row
DbAppointmentDetails(st, appointment) ==
  LET patient == getPatient(st, appointment.patientId)
      doctor == getDoctor(st, appointment.doctorId)
      patientUser == IF patient # Undefined THEN getUser(st, patient.userId)
                     ELSE Undefined
      doctorUser == IF doctor # Undefined THEN getUser(st, doctor.userId)
                    ELSE Undefined
  IN IF patient # Undefined /\ doctor # Undefined /\ patientUser # Undefined
        /\ doctorUser # Undefined
     THEN Merge(appointment,
                [patient |-> patientUser,
                 doctor |-> Merge(doctorUser, [doctorInfo |-> doctor])])
     ELSE Undefined

AppointmentDetails(im, st, appointment) ==
  IF im = "mem" THEN MemAppointmentDetails(st, appointment)
  ELSE DbAppointmentDetails(st, appointment)

RECURSIVE DetailsOf(_, _, _)
\* the loop of getAppointments over the keys ks
DetailsOf(im, st, ks) ==
  IF ks = <<>> THEN <<>>
  ELSE LET e == AppointmentDetails(im, st, st.appointments[Head(ks)])
       IN (IF e = Undefined THEN <<>> ELSE <<e>>) \o DetailsOf(im, st, Tail(ks))

getAppointments(im, st) == DetailsOf(im, st, Ascending(DOMAIN st.appointments))

getAppointmentsByPatient(im, st, patientId) ==
  LET allAppointments == getAppointments(im, st)
      test(apt) == apt.patientId = patientId
  IN SelectSeq(allAppointments, test)

\* the doctor filter testing the patient's column
getAppointmentsByDoctorOnPatientId(im, st, doctorId) ==
  LET allAppointments == getAppointments(im, st)
      test(apt) == apt.patientId = doctorId
  IN SelectSeq(allAppointments, test)

getAppointmentsByDoctor(im, st, doctorId) ==
  LET allAppointments == getAppointments(im, st)
      test(apt) == apt.doctorId = doctorId
  IN SelectSeq(allAppointments, test)

----------------------------------------------------------------------------
(* Specializations *)

\* getSpecializations(), as the set of its entries
getSpecializations(st) == {st.specializations[k] : k \in DOMAIN st.specializations}

NewSpecialization(in, id) ==
  Merge(in, [id |-> id,
             description |-> IF TruthyStr(Get(in, "description"))
                             THEN in.description ELSE Null])

MemCreateSpecialization(st, in) ==
  LET id == st.currentSpecializationId
      specialization == NewSpecialization(in, id)
  IN Res([st EXCEPT !.currentSpecializationId = id + 1,
                    !.specializations = MapSet(@, id, specialization)],
         Ok(specialization))

\* the specializations table without its unique name
NameTakenNever(st, name) == FALSE

\* specializations.name is UNIQUE
NameTaken(st, name) ==
  \E k \in DOMAIN st.specializations : st.specializations[k].name = name

DbCreateSpecialization(st, in) ==
  LET id == st.currentSpecializationId
      specialization == NewSpecialization(in, id)
      st1 == [st EXCEPT !.currentSpecializationId = id + 1]
  IN IF NameTaken(st, specialization.name)
     THEN Res(st1, Throw("specializations_name_unique"))
     ELSE Res([st1 EXCEPT !.specializations = MapSet(@, id, specialization)],
              Ok(specialization))

createSpecialization(im, st, in) ==
  IF im = "mem" THEN MemCreateSpecialization(st, in)
  ELSE DbCreateSpecialization(st, in)

----------------------------------------------------------------------------
(* Authentication *)

\* authentication that never compares the password
authenticateUserAnyPassword(st, userId, password) ==
  LET user == getUser(st, userId)
  IN IF user = Undefined THEN Undefined
     ELSE IF user.role = "doctor"
          THEN Merge(user, [doctorInfo |-> getDoctor(st, userId)])
     ELSE IF user.role = "patient"
          THEN Merge(user, [patientInfo |-> getPatient(st, userId)])
     ELSE user

\* the same text in both classes
\* the lookup attaching both profiles whatever the role
authenticateUserWithBothInfos(st, userId, password) ==
  LET user == getUser(st, userId)
  IN IF user = Undefined THEN Undefined
     ELSE IF user.password # password THEN Undefined
     ELSE Merge(user, [doctorInfo |-> user, patientInfo |-> user])

authenticateUser(st, userId, password) ==
  LET user == getUser(st, userId)
  IN IF user = Undefined THEN Undefined
     ELSE IF user.password # password THEN Undefined
     ELSE IF user.role = "doctor"
          THEN Merge(user, [doctorInfo |-> getDoctor(st, userId)])
     ELSE IF user.role = "patient"
          THEN Merge(user, [patientInfo |-> getPatient(st, userId)])
     ELSE user

----------------------------------------------------------------------------
(* Bootstrap *)

SeedAdmin ==
  [firstName |-> "Admin", email |-> "admin@hospital.com", password |-> "admin123",
   role |-> "admin", status |-> "active"]

SeedDoctor ==
  [firstName |-> "Dr. John", email |-> "doctor@hospital.com",
   password |-> "doctor123", role |-> "doctor", status |-> "active"]

SeedReceptionist ==
  [firstName |-> "Sarah", email |-> "receptionist@hospital.com",
   password |-> "receptionist123", role |-> "receptionist", status |-> "active"]

SeedPatient ==
  [firstName |-> "Michael", email |-> "patient@hospital.com",
   password |-> "patient123", role |-> "patient", status |-> "active"]

SeedDoctorProfile(userId) ==
  [userId |-> userId, licenseNumber |-> "MD123456", experience |-> 10]

SeedPatientProfile(userId) ==
  [userId |-> userId, gender |-> "male", bloodType |-> "O+"]

defaultSpecializations ==
  <<[name |-> "Cardiology", description |-> "Heart and cardiovascular system"],
    [name |-> "Neurology", description |-> "Brain and nervous system"],
    [name |-> "Orthopedics", description |-> "Bones, joints, and muscles"],
    [name |-> "Pediatrics", description |-> "Children and adolescents"],
    [name |-> "Dermatology", description |-> "Skin, hair, and nails"],
    [name |-> "Psychiatry", description |-> "Mental health and disorders"]>>

RECURSIVE CreateSpecializations(_, _, _)
\* for (const spec of defaultSpecializations) await this.createSpecialization(spec)
CreateSpecializations(im, r, specs) ==
  IF specs = <<>> \/ ~r.out.ok THEN r
  ELSE CreateSpecializations(im, createSpecialization(im, r.st, Head(specs)),
                             Tail(specs))

\* MemStorage: an id from generateUserId, then this.users.set(id, user)
MemSeedUser(st, seed, now) ==
  LET g == MemGenerateUserId(st, seed.role)
      user == Merge(seed, [id |-> g.out.val, createdAt |-> now])
  IN Res([g.st EXCEPT !.users = MapSet(@, user.id, user)], Ok(user))

MemInitializeDefaults(st, now) ==
  LET a == MemSeedUser(st, SeedAdmin, now)
      d == MemSeedUser(a.st, SeedDoctor, now)
      dp == MemCreateDoctor(d.st, SeedDoctorProfile(d.out.val.id))
      r == MemSeedUser(dp.st, SeedReceptionist, now)
      p == MemSeedUser(r.st, SeedPatient, now)
      pp == MemCreatePatient(p.st, SeedPatientProfile(p.out.val.id))
  IN CreateSpecializations("mem", pp, defaultSpecializations)

\* a step of the durable bootstrap: skipped once an earlier await has thrown
DbSeedUser(r, seed, now) ==
  IF r.out.ok THEN DbCreateUser(r.st, seed, now) ELSE r

\* createDoctor({userId: doctor.id, ...}) for the user just created
DbSeedDoctorProfile(r) ==
  IF r.out.ok THEN DbCreateDoctor(r.st, SeedDoctorProfile(r.out.val.id)) ELSE r

\* createPatient({userId: patient.id, ...}) for the user just created
DbSeedPatientProfile(r) ==
  IF r.out.ok THEN DbCreatePatient(r.st, SeedPatientProfile(r.out.val.id)) ELSE r

\* the durable bootstrap without its look at the users table
DbInitializeDefaultsUnguarded(st, now) ==
  LET g == DbGenerateUserId(st, "admin")
      a == DbSeedUser(g, SeedAdmin, now)
      d == DbSeedUser(a, SeedDoctor, now)
      dp == DbSeedDoctorProfile(d)
      r == DbSeedUser(dp, SeedReceptionist, now)
      p == DbSeedUser(r, SeedPatient, now)
      pp == DbSeedPatientProfile(p)
      sp == CreateSpecializations("db", pp, defaultSpecializations)
  IN IF sp.out.ok THEN Res(sp.st, Ok(Undefined)) ELSE sp

\* DatabaseStorage: nothing when a user exists; else the same seed through
\* createUser, createDoctor, createPatient and createSpecialization, the
\* first error ending the run with what was written so far
DbInitializeDefaults(st, now) ==
  IF DOMAIN st.users # {} THEN Res(st, Ok(Undefined))
  ELSE
    LET g == DbGenerateUserId(st, "admin")
        a == DbSeedUser(g, SeedAdmin, now)
        d == DbSeedUser(a, SeedDoctor, now)
        dp == DbSeedDoctorProfile(d)
        r == DbSeedUser(dp, SeedReceptionist, now)
        p == DbSeedUser(r, SeedPatient, now)
        pp == DbSeedPatientProfile(p)
        sp == CreateSpecializations("db", pp, defaultSpecializations)
    IN IF sp.out.ok THEN Res(sp.st, Ok(Undefined)) ELSE sp

\* a fresh database: empty tables, sequences at their start, no counters
FreshDatabase == [Constructed EXCEPT !.idCounters = Empty]

----------------------------------------------------------------------------
(* The clock and the initial state *)

\* new Date(): the clock is read as a logical instant that moves on with
\* every user and every appointment written
Now(st) == 1 + Cardinality(DOMAIN st.users) + Cardinality(DOMAIN st.appointments)

\* what the last operation was, its arguments and its outcome; prev is the
\* outcome of the operation before it when that was the same generateUserId
\* call, so that two calls in a row can be compared
LastOp(op, in, out, prev) == [op |-> op, in |-> in, out |-> out, prev |-> prev]

SetState(st) ==
  /\ users' = st.users
  /\ doctors' = st.doctors
  /\ patients' = st.patients
  /\ appointments' = st.appointments
  /\ specializations' = st.specializations
  /\ idCounters' = st.idCounters
  /\ currentAppointmentId' = st.currentAppointmentId
  /\ currentSpecializationId' = st.currentSpecializationId

\* the callers that have an async call of the repository in flight
Callers == {"c1", "c2"}

\* a call in flight: the operation and its arguments, where it stands (idle,
\* then waiting on its await, then done), the id it generated, the record
\* it found, its place in the order of writes, and its outcome
Call(op, in, pc, id, before, at, out) ==
  [op |-> op, in |-> in, pc |-> pc, id |-> id, before |-> before, at |-> at,
   out |-> out]

IdleCall == Call("none", Undefined, "idle", Undefined, Undefined, 0, Undefined)

\* where MemStorage.initializeDefaults stands: the await it resumes from
\* next, and the user id it generated before that await
Boot(pc, id) == [pc |-> pc, id |-> id]

\* the awaits of MemStorage.initializeDefaults: four generateUserId, createDoctor,
\* createPatient and six createSpecialization
SeedAwaits == 12

\* initializeDefaults has returned
Booted == Boot(SeedAwaits + 1, Undefined)

\* `export const storage = new MemStorage()` with its seed written, or
\* `new DatabaseStorage()` over a fresh database
Init ==
  /\ impl \in {"mem", "db"}
  /\ LET st == IF impl = "mem"
               THEN MemInitializeDefaults(Constructed, Now(Constructed)).st
               ELSE FreshDatabase
     IN /\ users = st.users
        /\ doctors = st.doctors
        /\ patients = st.patients
        /\ appointments = st.appointments
        /\ specializations = st.specializations
        /\ idCounters = st.idCounters
        /\ currentAppointmentId = st.currentAppointmentId
        /\ currentSpecializationId = st.currentSpecializationId
  /\ last = LastOp("new", Undefined, Ok(Undefined), Undefined)
  /\ calls = [c \in Callers |-> IdleCall]
  /\ twin = Undefined
  /\ boot = Booted

\* an operation's outcome becomes the next state
Apply(op, in, r) ==
  /\ SetState(r.st)
  /\ last' = LastOp(op, in, r.out, Undefined)
  /\ UNCHANGED <<impl, calls, twin, boot>>

----------------------------------------------------------------------------
(* The operations as actions *)

\* the digits of a generated id stay within a bound of the model
Within(id, max) == ParseInt(id.suffix) <= max

GenerateUserId(role) ==
  LET r == generateUserId(impl, Cur, role)
      in == [role |-> role]
  IN /\ r.out.ok => Within(r.out.val, MaxIssued)
     /\ SetState(r.st)
     /\ last' = LastOp("generateUserId", in, r.out,
                       IF last.op = "generateUserId" /\ last.in = in
                       THEN last.out ELSE Undefined)
     /\ UNCHANGED <<impl, calls, twin, boot>>

CreateUser(in) ==
  LET r == createUser(impl, Cur, in, Now(Cur))
  IN /\ r.out.ok => Within(r.out.val.id, MaxSuffix)
     /\ Apply("createUser", in, r)

UpdateUser(id, updates) ==
  Apply("updateUser", [id |-> id, updates |-> updates],
        updateUser(impl, Cur, id, updates))

CreateDoctor(in) == Apply("createDoctor", in, createDoctor(impl, Cur, in))

UpdateDoctor(id, updates) ==
  Apply("updateDoctor", [id |-> id, updates |-> updates],
        updateDoctor(impl, Cur, id, updates))

CreatePatient(in) == Apply("createPatient", in, createPatient(impl, Cur, in))

UpdatePatient(id, updates) ==
  Apply("updatePatient", [id |-> id, updates |-> updates],
        updatePatient(impl, Cur, id, updates))

CreateAppointment(in) ==
  /\ currentAppointmentId <= MaxAppointments
  /\ Apply("createAppointment", in, createAppointment(impl, Cur, in, Now(Cur)))

UpdateAppointment(id, updates) ==
  Apply("updateAppointment", [id |-> id, updates |-> updates],
        updateAppointment(impl, Cur, id, updates))

CreateSpecialization(in) ==
  /\ currentSpecializationId <= MaxSpecializationId
  /\ Apply("createSpecialization", in, createSpecialization(impl, Cur, in))

\* the durable repository's bootstrap, run by the server at start-up
InitializeDefaults ==
  /\ impl = "db"
  /\ Apply("initializeDefaults", Undefined, DbInitializeDefaults(Cur, Now(Cur)))

----------------------------------------------------------------------------
(* Calls in flight.  An async method runs to its first await when it is     *)
(* called and the rest of it runs later: other calls can run in between.    *)
(* MemStorage.generateUserId and the update methods of MemStorage have no   *)
(* await, so their whole body runs at the call.  createUser awaits          *)
(* generateUserId in both stores, and every statement of DatabaseStorage    *)
(* is awaited.                                                              *)

\* the place the next call takes in the order of the calls
NextAt == 1 + Cardinality({c \in Callers : calls[c].at > 0})

\* continuations of awaits on settled promises run in the order the awaits
\* were reached; answers of the database arrive in any order
Resumable(c) ==
  impl = "mem" =>
    \A d \in Callers : calls[d].pc = "awaiting" => calls[c].at <= calls[d].at

\* an INSERT INTO users that lets a second row in under a stored id
DbStoreUserNoPrimaryKey(st, in, id, now) ==
  LET user == NewUser(in, id, now)
  IN IF EmailTaken(st, id, user.email) THEN Res(st, Throw("users_email_unique"))
     ELSE Res([st EXCEPT !.users = MapSet(@, user.id, user)], Ok(user))

\* createUser after `await this.generateUserId(...)`: the row is built and
\* this.users.set(id, user) stores it
MemStoreUser(st, in, id, now) ==
  LET user == NewUser(in, id, now)
  IN Res([st EXCEPT !.users = MapSet(@, user.id, user)], Ok(user))

\* createUser after `await this.generateUserId(...)`: the row is built and
\* db.insert(users).values(...).returning() inserts it, once
DbStoreUser(st, in, id, now) ==
  LET user == NewUser(in, id, now)
      err == UsersInsertError(st, user)
  IN IF err # "" THEN Res(st, Throw(err))
     ELSE Res([st EXCEPT !.users = MapSet(@, user.id, user)], Ok(user))

storeUser(im, st, in, id, now) ==
  IF im = "mem" THEN MemStoreUser(st, in, id, now)
  ELSE DbStoreUser(st, in, id, now)

\* createUser is called and runs up to its await: the id is generated
BeginCreateUser(c, in) ==
  LET g == generateUserId(impl, Cur, in.role)
  IN /\ calls[c].pc = "idle"
     /\ g.out.ok => Within(g.out.val, MaxIssued)
     /\ SetState(g.st)
     /\ calls' = [calls EXCEPT ![c] =
                    IF g.out.ok
                    THEN Call("createUser", in, "awaiting", g.out.val,
                              Undefined, NextAt, Undefined)
                    ELSE Call("createUser", in, "done", Undefined,
                              Undefined, NextAt, g.out)]
     /\ UNCHANGED <<impl, last, twin, boot>>

\* createUser resumes after its await and stores the user
StoreUser(c) ==
  LET call == calls[c]
      r == storeUser(impl, Cur, call.in, call.id, Now(Cur))
  IN /\ call.op = "createUser"
     /\ call.pc = "awaiting"
     /\ Resumable(c)
     /\ SetState(r.st)
     /\ calls' = [calls EXCEPT ![c].pc = "done", ![c].out = r.out]
     /\ UNCHANGED <<impl, last, twin, boot>>

\* updateAppointment is called: MemStorage runs its whole body, which has no
\* await; DatabaseStorage sends its UPDATE and awaits the answer
BeginUpdateAppointment(c, id, updates) ==
  LET in == [id |-> id, updates |-> updates]
      r == MemUpdateAppointment(Cur, id, updates)
  IN /\ calls[c].pc = "idle"
     /\ IF impl = "mem"
        THEN /\ SetState(r.st)
             /\ calls' = [calls EXCEPT ![c] =
                            Call("updateAppointment", in, "done", Undefined,
                                 MapGet(appointments, id), NextAt, r.out)]
        ELSE /\ UNCHANGED <<collections, counters>>
             /\ calls' = [calls EXCEPT ![c] =
                            Call("updateAppointment", in, "awaiting", Undefined,
                                 Undefined, 0, Undefined)]
     /\ UNCHANGED <<impl, last, twin, boot>>

\* the database runs the UPDATE of a call, whenever it gets to it, and the
\* call returns the row or fails
SettleUpdateAppointment(c) ==
  LET call == calls[c]
      r == DbUpdateAppointment(Cur, call.in.id, call.in.updates)
  IN /\ call.op = "updateAppointment"
     /\ call.pc = "awaiting"
     /\ SetState(r.st)
     /\ calls' = [calls EXCEPT ![c] =
                    Call("updateAppointment", call.in, "done", Undefined,
                         MapGet(appointments, call.in.id), NextAt, r.out)]
     /\ UNCHANGED <<impl, last, twin, boot>>

----------------------------------------------------------------------------
(* The API layer: each handler parses the request, calls the repository and *)
(* answers; its catch block answers for whatever its try block threw.       *)

\* res.status(status).json(body); res.json(body) answers 200
Response(status, body) == [status |-> status, body |-> body]

\* what a handler did: the state it left, what its try block came to (the
\* value the repository returned or the error that was thrown) and its answer
Handled(st, inner, response) == [st |-> st, inner |-> inner, response |-> response]

\* the error a schema's parse throws
ZodError == "ZodError"

\* z.object strips the keys the schema does not name
Strip(body, keys) == [k \in (DOMAIN body) \cap keys |-> body[k]]

\* the length of a user id written as a string
IdLength(id) == Len(id.prefix) + Len(id.suffix)

\* loginSchema: userId of at least 6 characters, password of at least 1
ValidLogin(body) ==
  /\ {"userId", "password"} \subseteq DOMAIN body
  /\ IdLength(body.userId) >= 6
  /\ Len(body.password) >= 1

\* POST /api/auth/login
PostLogin(st, body) ==
  IF ~ValidLogin(body)
  THEN Handled(st, Throw(ZodError), Response(400, ZodError))
  ELSE LET user == authenticateUser(st, body.userId, body.password)
       IN IF user = Undefined
          THEN Handled(st, Ok(user), Response(401, "Invalid credentials"))
          ELSE Handled(st, Ok(user), Response(200, user))

\* GET /api/users/:id
GetUserById(st, id) ==
  LET user == getUser(st, id)
  IN IF user = Undefined
     THEN Handled(st, Ok(user), Response(404, "User not found"))
     ELSE Handled(st, Ok(user), Response(200, user))

\* the columns insertAppointmentSchema names: appointments without id and
\* createdAt
AppointmentKeys ==
  {"patientId", "doctorId", "date", "time", "duration", "reason", "status",
   "type", "notes"}

\* insertAppointmentSchema: the NOT NULL columns without a default are required
ValidAppointment(body) ==
  {"patientId", "doctorId", "date", "time", "reason"} \subseteq DOMAIN body

\* POST /api/appointments
PostAppointments(im, st, body, now) ==
  IF ~ValidAppointment(body)
  THEN Handled(st, Throw(ZodError), Response(400, ZodError))
  ELSE LET r == createAppointment(im, st, Strip(body, AppointmentKeys), now)
       IN IF r.out.ok THEN Handled(r.st, r.out, Response(200, r.out.val))
          ELSE Handled(r.st, r.out, Response(400, r.out.err))

\* PATCH /api/appointments/:id
PatchAppointment(im, st, id, body) ==
  LET r == updateAppointment(im, st, id, body)
  IN IF ~r.out.ok THEN Handled(r.st, r.out, Response(400, r.out.err))
     ELSE IF r.out.val = Undefined
          THEN Handled(r.st, r.out, Response(404, "Appointment not found"))
     ELSE Handled(r.st, r.out, Response(200, r.out.val))

\* the strings of the model that z.string().email() accepts
EmailShaped ==
  {"admin@hospital.com", "doctor@hospital.com", "receptionist@hospital.com",
   "patient@hospital.com", "ann@example.org", "carl@example.org",
   "dora@example.org", "finn@example.org"}

\* what registerPatientSchema and addDoctorSchema ask of the fields they share
ValidPerson(body) ==
  /\ {"firstName", "email", "password"} \subseteq DOMAIN body
  /\ Len(body.firstName) >= 2
  /\ body.email \in EmailShaped
  /\ Len(body.password) >= 6

\* registerPatientSchema
ValidRegistration(body) ==
  /\ ValidPerson(body)
  /\ "gender" \in DOMAIN body
  /\ body.gender \in {"male", "female", "other"}

\* addDoctorSchema; experience is a number of at least 0 when it is given
ValidDoctor(body) ==
  /\ ValidPerson(body)
  /\ "licenseNumber" \in DOMAIN body
  /\ Len(body.licenseNumber) >= 5
  /\ "experience" \in DOMAIN body => body.experience >= 0

\* the columns of users a request can set
UserKeys == {"firstName", "email", "password", "role", "status"}

\* the values createUser is given: MemStorage keeps every property of the
\* object, an INSERT only those that are columns
UserValues(im, body) == IF im = "mem" THEN body ELSE Strip(body, UserKeys)

\* register without the look for the e-mail
PostRegisterUnchecked(im, st, body, now) ==
  LET patientData == Strip(body, {"firstName", "email", "password", "gender"})
      u == createUser(im, st,
                      UserValues(im, Merge(patientData, [role |-> "patient",
                                                         status |-> "active"])),
                      now)
      p == createPatient(im, u.st, [userId |-> u.out.val.id,
                                    gender |-> patientData.gender,
                                    bloodType |-> Null])
  IN IF ~ValidRegistration(body)
     THEN Handled(st, Throw(ZodError), Response(400, ZodError))
     ELSE IF ~u.out.ok THEN Handled(u.st, u.out, Response(400, u.out.err))
     ELSE IF ~p.out.ok THEN Handled(p.st, p.out, Response(400, p.out.err))
     ELSE Handled(p.st, p.out,
                  Response(200, [user |-> u.out.val, patient |-> p.out.val]))

\* POST /api/auth/register
PostRegister(im, st, body, now) ==
  LET patientData == Strip(body, {"firstName", "email", "password", "gender"})
      existingUser == getUserByEmail(st, patientData.email)
      u == createUser(im, st,
                      UserValues(im, Merge(patientData, [role |-> "patient",
                                                         status |-> "active"])),
                      now)
      p == createPatient(im, u.st, [userId |-> u.out.val.id,
                                    gender |-> patientData.gender,
                                    bloodType |-> Null])
  IN IF ~ValidRegistration(body)
     THEN Handled(st, Throw(ZodError), Response(400, ZodError))
     ELSE IF existingUser # Undefined
          THEN Handled(st, Ok(existingUser),
                       Response(400, "Email already registered"))
     ELSE IF ~u.out.ok THEN Handled(u.st, u.out, Response(400, u.out.err))
     ELSE IF ~p.out.ok THEN Handled(p.st, p.out, Response(400, p.out.err))
     ELSE Handled(p.st, p.out,
                  Response(200, [user |-> u.out.val, patient |-> p.out.val]))

\* POST /api/doctors; addDoctorSchema gives experience its default 0
PostDoctors(im, st, body, now) ==
  LET doctorData == Merge([experience |-> 0],
                          Strip(body, {"firstName", "email", "password",
                                       "licenseNumber", "experience"}))
      existingUser == getUserByEmail(st, doctorData.email)
      u == createUser(im, st,
                      [firstName |-> doctorData.firstName,
                       email |-> doctorData.email,
                       password |-> doctorData.password,
                       role |-> "doctor", status |-> "active"],
                      now)
      d == createDoctor(im, u.st, [userId |-> u.out.val.id,
                                   licenseNumber |-> doctorData.licenseNumber,
                                   experience |-> doctorData.experience])
  IN IF ~ValidDoctor(body)
     THEN Handled(st, Throw(ZodError), Response(400, ZodError))
     ELSE IF existingUser # Undefined
          THEN Handled(st, Ok(existingUser),
                       Response(400, "Email already registered"))
     ELSE IF ~u.out.ok THEN Handled(u.st, u.out, Response(400, u.out.err))
     ELSE IF ~d.out.ok THEN Handled(d.st, d.out, Response(400, d.out.err))
     ELSE Handled(d.st, d.out,
                  Response(200, [user |-> u.out.val, doctor |-> d.out.val]))

\* a request is handled: the handler's outcome becomes the next state, and
\* the answer is kept with what the try block came to
Answer(route, request, h) ==
  /\ SetState(h.st)
  /\ last' = LastOp(route, request, Ok(h.response), h.inner)
  /\ UNCHANGED <<impl, calls, twin, boot>>

Login(body) == Answer("POST /api/auth/login", body, PostLogin(Cur, body))

GetUser(id) == Answer("GET /api/users/:id", [id |-> id], GetUserById(Cur, id))

BookAppointment(body) ==
  /\ currentAppointmentId <= MaxAppointments
  /\ Answer("POST /api/appointments", body,
            PostAppointments(impl, Cur, body, Now(Cur)))

Patch(id, body) ==
  Answer("PATCH /api/appointments/:id", [id |-> id, body |-> body],
         PatchAppointment(impl, Cur, id, body))

\* the users a handler would add stay within the bound of the model
AddsWithin(h, max) ==
  \A id \in (DOMAIN h.st.users) \ (DOMAIN users) : Within(id, max)

Register(body) ==
  LET h == PostRegister(impl, Cur, body, Now(Cur))
  IN AddsWithin(h, MaxIssued) /\ Answer("POST /api/auth/register", body, h)

AddDoctor(body) ==
  LET h == PostDoctors(impl, Cur, body, Now(Cur))
  IN AddsWithin(h, MaxIssued) /\ Answer("POST /api/doctors", body, h)

----------------------------------------------------------------------------
(* MemStorage.initializeDefaults by the await: the constructor calls it      *)
(* without awaiting it, so it runs to its first await inside the            *)
(* constructor and the rest of it runs later, piece by piece.               *)

\* this.users.set(id, seed user) for the id generated before the await
SeedStored(st, seed, id, now) ==
  [st EXCEPT !.users = MapSet(@, id, Merge(seed, [id |-> id, createdAt |-> now]))]

\* the statements of initializeDefaults from the await numbered pc to the
\* next one: the state they leave and the id they generate
MemSeedPiece(st, pc, id, now) ==
  CASE pc = 1 -> MemGenerateUserId(SeedStored(st, SeedAdmin, id, now), "doctor")
    [] pc = 2 -> MemCreateDoctor(SeedStored(st, SeedDoctor, id, now),
                                 SeedDoctorProfile(id))
    [] pc = 3 -> MemGenerateUserId(st, "receptionist")
    [] pc = 4 -> MemGenerateUserId(SeedStored(st, SeedReceptionist, id, now),
                                   "patient")
    [] pc = 5 -> MemCreatePatient(SeedStored(st, SeedPatient, id, now),
                                  SeedPatientProfile(id))
    [] pc \in 6..11 -> MemCreateSpecialization(st, defaultSpecializations[pc - 5])
    [] pc = 12 -> Res(st, Ok(Undefined))

\* `new MemStorage()` has returned: the fields are set and initializeDefaults
\* waits at its first await, on generateUserId('admin')
InitBoot ==
  /\ impl = "mem"
  /\ LET g == MemGenerateUserId(Constructed, "admin")
     IN /\ users = g.st.users
        /\ doctors = g.st.doctors
        /\ patients = g.st.patients
        /\ appointments = g.st.appointments
        /\ specializations = g.st.specializations
        /\ idCounters = g.st.idCounters
        /\ currentAppointmentId = g.st.currentAppointmentId
        /\ currentSpecializationId = g.st.currentSpecializationId
        /\ boot = Boot(1, g.out.val)
  /\ last = LastOp("new", Undefined, Ok(Undefined), Undefined)
  /\ calls = [c \in Callers |-> IdleCall]
  /\ twin = Undefined

\* initializeDefaults resumes from its await and runs to the next one
SeedStep ==
  LET r == MemSeedPiece(Cur, boot.pc, boot.id, Now(Cur))
  IN /\ boot.pc <= SeedAwaits
     /\ SetState(r.st)
     /\ boot' = Boot(boot.pc + 1,
                     IF boot.pc \in {1, 3, 4} THEN r.out.val ELSE Undefined)
     /\ UNCHANGED <<impl, last, calls, twin>>

\* read operations a caller makes
Authenticate(userId, password) ==
  Apply("authenticateUser", [userId |-> userId, password |-> password],
        Res(Cur, Ok(authenticateUser(Cur, userId, password))))

ListSpecializations ==
  Apply("getSpecializations", Undefined, Res(Cur, Ok(getSpecializations(Cur))))

----------------------------------------------------------------------------
(* The two stores side by side: the variables of the repository hold a      *)
(* MemStorage and twin holds a DatabaseStorage that was given the same      *)
(* calls.  Only calls that both accept are made.                            *)

\* a MemStorage with its seed written beside a bootstrapped DatabaseStorage
InitTwins ==
  /\ impl = "mem"
  /\ LET st == MemInitializeDefaults(Constructed, Now(Constructed)).st
     IN /\ users = st.users
        /\ doctors = st.doctors
        /\ patients = st.patients
        /\ appointments = st.appointments
        /\ specializations = st.specializations
        /\ idCounters = st.idCounters
        /\ currentAppointmentId = st.currentAppointmentId
        /\ currentSpecializationId = st.currentSpecializationId
  /\ last = LastOp("new", Undefined, Ok(Undefined), Undefined)
  /\ calls = [c \in Callers |-> IdleCall]
  /\ twin = DbInitializeDefaults(FreshDatabase, Now(FreshDatabase)).st
  /\ boot = Booted

\* one call made on both stores and accepted by both; the outcome of the
\* durable one is kept beside the outcome of the in-memory one
OnBoth(op, in, rm, rd) ==
  /\ rm.out.ok /\ rd.out.ok
  /\ SetState(rm.st)
  /\ twin' = rd.st
  /\ last' = LastOp(op, in, rm.out, rd.out)
  /\ UNCHANGED <<impl, calls, boot>>

BothCreateUser(in) ==
  LET rm == MemCreateUser(Cur, in, Now(Cur))
  IN /\ rm.out.ok => Within(rm.out.val.id, MaxSuffix)
     /\ OnBoth("createUser", in, rm, DbCreateUser(twin, in, Now(twin)))

BothUpdateDoctor(id, updates) ==
  OnBoth("updateDoctor", [id |-> id, updates |-> updates],
         MemUpdateDoctor(Cur, id, updates), DbUpdateDoctor(twin, id, updates))

BothUpdatePatient(id, updates) ==
  OnBoth("updatePatient", [id |-> id, updates |-> updates],
         MemUpdatePatient(Cur, id, updates), DbUpdatePatient(twin, id, updates))

BothCreateAppointment(in) ==
  /\ currentAppointmentId <= MaxAppointments
  /\ OnBoth("createAppointment", in, MemCreateAppointment(Cur, in, Now(Cur)),
            DbCreateAppointment(twin, in, Now(twin)))

BothUpdateAppointment(id, updates) ==
  OnBoth("updateAppointment", [id |-> id, updates |-> updates],
         MemUpdateAppointment(Cur, id, updates),
         DbUpdateAppointment(twin, id, updates))

----------------------------------------------------------------------------
(* Arguments the operations are called with *)

ADM(n) == FormatId("ADM", n)

DOC(n) == FormatId("DOC", n)

REC(n) == FormatId("REC", n)

PAT(n) == FormatId("PAT", n)

\* role strings generateUserId is called with: the four roles, a string that
\* is no role, and a string that names a member of Object.prototype
RoleStrings == Roles \cup {"nurse", "constructor"}

\* a new doctor's user, status left out
AnnDoctor ==
  [firstName |-> "Ann", email |-> "ann@example.org", password |-> "secret1",
   role |-> "doctor"]

\* a new patient's user under the e-mail of the seeded patient
BobPatient ==
  [firstName |-> "Bob", email |-> "patient@hospital.com", password |-> "secret2",
   role |-> "patient", status |-> "inactive"]

\* a user whose role is none of the four
EveNurse ==
  [firstName |-> "Eve", email |-> "eve@example.org", password |-> "secret3",
   role |-> "nurse"]

\* a new patient's user under an e-mail of its own
CarlPatient ==
  [firstName |-> "Carl", email |-> "carl@example.org", password |-> "secret4",
   role |-> "patient"]

NewUserInputs == {AnnDoctor, BobPatient, EveNurse}

\* the users the profile and appointment specifications create
ProfileUserInputs == {AnnDoctor, CarlPatient}

UserUpdates ==
  {[password |-> "changed1"], [email |-> "ann@example.org"], [role |-> "patient"]}

\* ids updateUser is called with; ADM0002 is never stored
UserIdsUpdated == {DOC(1), DOC(2), ADM(2)}

NewDoctorInputs ==
  {[userId |-> DOC(1), licenseNumber |-> "LIC00001"],
   [userId |-> DOC(2), licenseNumber |-> "LIC00002", experience |-> 5]}

DoctorUpdates == {[experience |-> 7], [userId |-> DOC(2)]}

NewPatientInputs ==
  {[userId |-> PAT(1), gender |-> "female"],
   [userId |-> PAT(2), gender |-> "other", bloodType |-> "A+"]}

PatientUpdates == {[bloodType |-> "B+"], [userId |-> PAT(1)]}

NewAppointmentInputs ==
  {[patientId |-> PAT(2), doctorId |-> DOC(2), date |-> "2026-01-10",
    time |-> "09:30", reason |-> "checkup"],
   [patientId |-> PAT(1), doctorId |-> DOC(1), date |-> "2026-01-11",
    time |-> "14:00", reason |-> "results",
    status |-> "confirmed", type |-> "follow-up", duration |-> 45,
    notes |-> "bring results"]}

AppointmentUpdates == {[status |-> "cancelled"]}

\* the status values a PATCH body sets
StatusUpdates ==
  {[status |-> "scheduled"], [status |-> "completed"], [status |-> "cancelled"]}

\* a name the seed uses, and a new name with and without a description
NewSpecializationInputs ==
  {[name |-> "Cardiology"],
   [name |-> "Oncology", description |-> "Cancer care"],
   [name |-> "Oncology"]}

----------------------------------------------------------------------------
(* The specifications *)

CallGenerateUserId == \E role \in RoleStrings : GenerateUserId(role)

CallCreateUser == \E in \in NewUserInputs : CreateUser(in)

\* the routes create a user only after getUserByEmail found none
CallCreateProfileUser ==
  \E in \in ProfileUserInputs :
    /\ getUserByEmail(Cur, in.email) = Undefined
    /\ CreateUser(in)

CallUpdateUser ==
  \E id \in UserIdsUpdated, updates \in UserUpdates : UpdateUser(id, updates)

CallCreateDoctor == \E in \in NewDoctorInputs : CreateDoctor(in)

CallUpdateDoctor ==
  \E id \in {DOC(1), DOC(2)}, updates \in DoctorUpdates : UpdateDoctor(id, updates)

CallCreatePatient == \E in \in NewPatientInputs : CreatePatient(in)

CallUpdatePatient ==
  \E id \in {PAT(1), PAT(2)}, updates \in PatientUpdates : UpdatePatient(id, updates)

CallCreateAppointment == \E in \in NewAppointmentInputs : CreateAppointment(in)

CallUpdateAppointment ==
  \E id \in 1..(MaxAppointments + 1), updates \in AppointmentUpdates :
     UpdateAppointment(id, updates)

\* every operation of the repository that writes
Next ==
  \/ CallGenerateUserId
  \/ CallCreateUser
  \/ CallUpdateUser
  \/ CallCreateDoctor
  \/ CallUpdateDoctor
  \/ CallCreatePatient
  \/ CallUpdatePatient
  \/ CallCreateAppointment
  \/ CallUpdateAppointment
  \/ InitializeDefaults

Spec == Init /\ [][Next]_vars

\* id generation and user creation
NextIds == CallGenerateUserId \/ CallCreateUser \/ InitializeDefaults

SpecIds == Init /\ [][NextIds]_vars

\* users and their profiles
NextUsers ==
  \/ CallCreateUser
  \/ CallUpdateUser
  \/ CallCreateDoctor
  \/ CallCreatePatient
  \/ InitializeDefaults

SpecUsers == Init /\ [][NextUsers]_vars

\* profiles and their listings
NextProfiles ==
  \/ CallCreateProfileUser
  \/ CallCreateDoctor
  \/ CallUpdateDoctor
  \/ CallCreatePatient
  \/ CallUpdatePatient
  \/ InitializeDefaults

SpecProfiles == Init /\ [][NextProfiles]_vars

\* createDoctor / createPatient for the users created after the seed
CallCreateNewDoctor ==
  \E in \in {i \in NewDoctorInputs : i.userId = DOC(2)} : CreateDoctor(in)

CallCreateNewPatient ==
  \E in \in {i \in NewPatientInputs : i.userId = PAT(2)} : CreatePatient(in)

\* appointments over users and profiles
NextAppointments ==
  \/ CallCreateProfileUser
  \/ CallCreateNewDoctor
  \/ CallCreateNewPatient
  \/ CallCreateAppointment
  \/ CallUpdateAppointment
  \/ InitializeDefaults

SpecAppointments == Init /\ [][NextAppointments]_vars

CallCreateSpecialization ==
  \E in \in NewSpecializationInputs : CreateSpecialization(in)

\* the specialization catalogue and the bootstrap that seeds it
NextSpecializations ==
  \/ CallCreateSpecialization
  \/ CallCreateProfileUser
  \/ InitializeDefaults

SpecSpecializations == Init /\ [][NextSpecializations]_vars

\* every update, on stored and on unknown ids
NextUpdates ==
  \/ CallCreateProfileUser
  \/ CallUpdateUser
  \/ CallUpdateDoctor
  \/ CallUpdatePatient
  \/ CallUpdateAppointment
  \/ InitializeDefaults

SpecUpdates == Init /\ [][NextUpdates]_vars

\* one call of every writing operation of the repository
CallCreateCarl ==
  /\ getUserByEmail(Cur, CarlPatient.email) = Undefined
  /\ CreateUser(CarlPatient)

CallTouchUser == UpdateUser(DOC(1), [password |-> "changed1"])

CallRecreateDoctor ==
  \E in \in {i \in NewDoctorInputs : i.userId = DOC(1)} : CreateDoctor(in)

CallTouchDoctor == UpdateDoctor(DOC(1), [experience |-> 7])

CallRecreatePatient ==
  \E in \in {i \in NewPatientInputs : i.userId = PAT(1)} : CreatePatient(in)

CallTouchPatient == UpdatePatient(PAT(1), [bloodType |-> "B+"])

CallBookAppointment ==
  \E in \in {i \in NewAppointmentInputs : i.patientId = PAT(1)} :
    CreateAppointment(in)

CallCreateOncology ==
  \E in \in {i \in NewSpecializationInputs : i = [name |-> "Oncology"]} :
    CreateSpecialization(in)

\* the updates two callers make at the same time: a status, a status with
\* notes, and a doctor no doctors row has
RacingUpdates ==
  {[status |-> "cancelled"], [status |-> "confirmed", notes |-> "call first"],
   [doctorId |-> DOC(2)]}

CallBeginUpdateAppointment ==
  \E c \in Callers, id \in 1..MaxAppointments, updates \in RacingUpdates :
    BeginUpdateAppointment(c, id, updates)

CallSettleUpdateAppointment == \E c \in Callers : SettleUpdateAppointment(c)

\* the users two callers create at the same time
RacingUserInputs == {AnnDoctor, BobPatient, CarlPatient}

CallBeginCreateUser ==
  \E c \in Callers : \E in \in RacingUserInputs : BeginCreateUser(c, in)

CallStoreUser == \E c \in Callers : StoreUser(c)

\* every writing operation, each on few inputs
NextRecords ==
  \/ CallCreateCarl
  \/ CallTouchUser
  \/ CallRecreateDoctor
  \/ CallTouchDoctor
  \/ CallRecreatePatient
  \/ CallTouchPatient
  \/ CallBookAppointment
  \/ CallUpdateAppointment
  \/ CallCreateOncology
  \/ InitializeDefaults

SpecRecords == Init /\ [][NextRecords]_vars

CallUpdateAppointmentStatus ==
  \E id \in 1..MaxAppointments, updates \in StatusUpdates :
    UpdateAppointment(id, updates)

\* appointments of the seeded patient and doctor and their status
NextStatus ==
  \/ CallBookAppointment
  \/ CallUpdateAppointmentStatus
  \/ InitializeDefaults

SpecStatus == Init /\ [][NextStatus]_vars

\* two callers that each create one user, in every order the awaits allow
NextCreateRace ==
  \/ CallBeginCreateUser
  \/ CallStoreUser
  \/ InitializeDefaults

SpecCreateRace == Init /\ [][NextCreateRace]_vars

\* appointments with the optional fields omitted, given, and given as 0 and ""
OptionalAppointmentInputs ==
  {[patientId |-> PAT(1), doctorId |-> DOC(1), date |-> "2026-01-12",
    time |-> "10:00", reason |-> "checkup"],
   [patientId |-> PAT(1), doctorId |-> DOC(1), date |-> "2026-01-11",
    time |-> "14:00", reason |-> "results",
    status |-> "confirmed", type |-> "follow-up", duration |-> 45,
    notes |-> "bring results"],
   [patientId |-> PAT(1), doctorId |-> DOC(1), date |-> "2026-01-13",
    time |-> "11:00", reason |-> "triage", duration |-> 0, notes |-> ""]}

\* doctors with experience omitted and given as 0
OptionalDoctorInputs ==
  {[userId |-> DOC(2), licenseNumber |-> "LIC00002"],
   [userId |-> DOC(2), licenseNumber |-> "LIC00002", experience |-> 0]}

\* specializations with the description omitted and given as ""
OptionalSpecializationInputs ==
  {[name |-> "Oncology"], [name |-> "Geriatrics", description |-> ""]}

CallCreateOptionalAppointment ==
  \E in \in OptionalAppointmentInputs : CreateAppointment(in)

CallCreateOptionalDoctor == \E in \in OptionalDoctorInputs : CreateDoctor(in)

CallCreateOptionalSpecialization ==
  \E in \in OptionalSpecializationInputs : CreateSpecialization(in)

CallCreateAnn ==
  /\ getUserByEmail(Cur, AnnDoctor.email) = Undefined
  /\ CreateUser(AnnDoctor)

\* the create operations that fill in defaults
NextDefaults ==
  \/ CallCreateAnn
  \/ CallCreateOptionalAppointment
  \/ CallCreateOptionalDoctor
  \/ CallCreateOptionalSpecialization
  \/ InitializeDefaults

SpecDefaults == Init /\ [][NextDefaults]_vars

\* bodies of PATCH /api/appointments/:id, which reach updateAppointment as
\* they are: a status, and an id
PatchBodies == {[status |-> "cancelled"], [id |-> 2]}

CallPatchAppointment ==
  \E id \in 1..MaxAppointments, updates \in PatchBodies :
    UpdateAppointment(id, updates)

\* records, their keys and the counters that assign the integer keys
NextKeys ==
  \/ CallBookAppointment
  \/ CallPatchAppointment
  \/ CallCreateOncology
  \/ CallTouchUser
  \/ CallTouchDoctor
  \/ CallTouchPatient
  \/ InitializeDefaults

SpecKeys == Init /\ [][NextKeys]_vars

\* login bodies: the seeded admin with the right and a wrong password, an id
\* nobody has, an id of two characters, an empty password
LoginBodies ==
  {[userId |-> ADM(1), password |-> "admin123"],
   [userId |-> ADM(1), password |-> "guess"],
   [userId |-> ADM(2), password |-> "admin123"],
   [userId |-> [prefix |-> "A", suffix |-> <<1>>], password |-> "admin123"],
   [userId |-> ADM(1), password |-> ""]}

\* appointment bodies: complete, for a patient nobody stored, without a reason
AppointmentBodies ==
  {[patientId |-> PAT(1), doctorId |-> DOC(1), date |-> "2026-01-12",
    time |-> "10:00", reason |-> "checkup"],
   [patientId |-> PAT(2), doctorId |-> DOC(1), date |-> "2026-01-12",
    time |-> "10:30", reason |-> "checkup"],
   [patientId |-> PAT(1), doctorId |-> DOC(1), date |-> "2026-01-12",
    time |-> "11:00"]}

CallLogin == \E body \in LoginBodies : Login(body)

CallGetUser == \E id \in {ADM(1), ADM(2)} : GetUser(id)

CallPostAppointment == \E body \in AppointmentBodies : BookAppointment(body)

CallPatch ==
  \E id \in 1..MaxAppointments, body \in PatchBodies \cup {[patientId |-> PAT(2)]} :
    Patch(id, body)

\* requests to the routes that answer for the repository
NextRoutes ==
  \/ CallLogin
  \/ CallGetUser
  \/ CallPostAppointment
  \/ CallPatch
  \/ InitializeDefaults

SpecRoutes == Init /\ [][NextRoutes]_vars

\* the same calls made on both stores
NextTwins ==
  \/ \E in \in ProfileUserInputs : BothCreateUser(in)
  \/ \E id \in {DOC(1)}, updates \in DoctorUpdates : BothUpdateDoctor(id, updates)
  \/ \E id \in {PAT(1)}, updates \in {[bloodType |-> "B+"], [userId |-> PAT(2)]} :
       BothUpdatePatient(id, updates)
  \/ \E in \in {i \in NewAppointmentInputs : i.patientId = PAT(1)} :
       BothCreateAppointment(in)
  \/ \E id \in 1..MaxAppointments, updates \in AppointmentUpdates :
       BothUpdateAppointment(id, updates)

SpecTwins == InitTwins /\ [][NextTwins]_vars

CallAuthenticate ==
  \E userId \in {ADM(1), DOC(1)}, password \in {"admin123", "doctor123"} :
    Authenticate(userId, password)

\* a repository just constructed: its seed being written while callers read
\* and create
NextBoot ==
  \/ SeedStep
  \/ CallAuthenticate
  \/ ListSpecializations
  \/ CallCreateAnn

SpecBoot == InitBoot /\ [][NextBoot]_vars

\* registrations: two new patients, the seeded patient's e-mail, a password
\* of five characters
RegisterBodies ==
  {[firstName |-> "Carl", email |-> "carl@example.org", password |-> "secret4",
    gender |-> "male"],
   [firstName |-> "Dora", email |-> "dora@example.org", password |-> "secret5",
    gender |-> "female"],
   [firstName |-> "Bob", email |-> "patient@hospital.com", password |-> "secret2",
    gender |-> "male"],
   [firstName |-> "Gil", email |-> "carl@example.org", password |-> "short",
    gender |-> "male"]}

\* doctors to add: two new ones, the seeded doctor's e-mail, a licence number
\* of three characters
DoctorBodies ==
  {[firstName |-> "Ann", email |-> "ann@example.org", password |-> "secret1",
    licenseNumber |-> "LIC00002"],
   [firstName |-> "Finn", email |-> "finn@example.org", password |-> "secret6",
    licenseNumber |-> "LIC00003", experience |-> 5],
   [firstName |-> "Hal", email |-> "doctor@hospital.com", password |-> "secret7",
    licenseNumber |-> "LIC00004"],
   [firstName |-> "Ann", email |-> "ann@example.org", password |-> "secret1",
    licenseNumber |-> "LIC"]}

CallRegister == \E body \in RegisterBodies : Register(body)

CallAddDoctor == \E body \in DoctorBodies : AddDoctor(body)

\* the routes that create a user and its profile
NextRegister ==
  \/ CallRegister
  \/ CallAddDoctor
  \/ InitializeDefaults

SpecRegister == Init /\ [][NextRegister]_vars

\* two callers that each update one appointment, in every order
NextUpdateRace ==
  \/ CallBookAppointment
  \/ CallBeginUpdateAppointment
  \/ CallSettleUpdateAppointment
  \/ InitializeDefaults

SpecUpdateRace == Init /\ [][NextUpdateRace]_vars

----------------------------------------------------------------------------
(* Properties *)

\* the number a four-digit id suffix writes, read digit by digit
IdNumber(id) ==
  1000 * id.suffix[1] + 100 * id.suffix[2] + 10 * id.suffix[3] + id.suffix[4]

\* an id of the shape <three-letter prefix of the role><four digits>
WellFormedId(id, role) ==
  /\ id.prefix = prefixes[role]
  /\ Len(id.suffix) = 4
  /\ \A i \in 1..4 : id.suffix[i] \in 0..9
  /\ IdNumber(id) >= 1

\* the last operation was generateUserId(r) for one of the four roles
GeneratedForRole == last.op = "generateUserId" /\ last.in.role \in Roles

\* C1 as stated: generateUserId(r) called again right after generateUserId(r),
\* under either strategy, returns a well-formed id with a greater number.
C1_IdsInARowIncrease ==
  GeneratedForRole =>
    /\ last.out.ok
    /\ WellFormedId(last.out.val, last.in.role)
    /\ last.prev # Undefined => IdNumber(last.prev.val) < IdNumber(last.out.val)

\* C1 amended: generateUserId(r) returns prefix(r) and a number zero-padded
\* to four digits.  Called again right after itself it returns a greater
\* number under the in-memory counter, and the same id under the durable
\* scan, whose id is one more than the greatest stored number of the prefix.
C1_IdsInARow ==
  GeneratedForRole =>
    /\ last.out.ok
    /\ WellFormedId(last.out.val, last.in.role)
    /\ (impl = "mem" /\ last.prev # Undefined) =>
          IdNumber(last.prev.val) < IdNumber(last.out.val)
    /\ (impl = "db" /\ last.prev # Undefined) => last.prev.val = last.out.val
    /\ impl = "db" =>
          /\ \A k \in DOMAIN users :
                k.prefix = last.out.val.prefix => IdNumber(k) < IdNumber(last.out.val)
          /\ \/ IdNumber(last.out.val) = 1
             \/ \E k \in DOMAIN users :
                   /\ k.prefix = last.out.val.prefix
                   /\ IdNumber(k) + 1 = IdNumber(last.out.val)

\* two in-memory calls in a row that returned DOC0002 and then DOC0003
C1_Witness ==
  /\ impl = "mem"
  /\ GeneratedForRole
  /\ last.prev # Undefined
  /\ last.prev.val = DOC(2)
  /\ last.out.val = DOC(3)

\* a step that wrote users: the ids it added are greater than every stored
\* id of their prefix
NewIdsAreGreater ==
  \A id \in (DOMAIN users') \ (DOMAIN users) :
    \A k \in DOMAIN users : k.prefix = id.prefix => IdNumber(k) < IdNumber(id)

\* a step of createUser or of the bootstrap leaves every stored user as it was
StoredUsersKept ==
  last'.op \in {"createUser", "initializeDefaults"} =>
    \A k \in DOMAIN users : k \in DOMAIN users' /\ users'[k] = users[k]

\* a createUser that returned stored its record under an id no user had
CreatedUnderFreshId ==
  (last'.op = "createUser" /\ last'.out.ok) =>
    /\ last'.out.val.id \notin DOMAIN users
    /\ last'.out.val.id \in DOMAIN users'
    /\ users'[last'.out.val.id] = last'.out.val

\* C2: through createUser, updateUser and the bootstrap, every id handed out
\* exceeds the ids of its prefix handed out before, and createUser neither
\* overwrites nor duplicates a stored user.
C2_IdsIncreaseNeverReused ==
  [][NewIdsAreGreater /\ StoredUsersKept /\ CreatedUnderFreshId]_vars

\* createUser has just stored DOC0002 beside a DOC0001 that updateUser changed
C2_Witness ==
  /\ last.op = "createUser"
  /\ last.out.ok
  /\ last.out.val.id = DOC(2)
  /\ DOC(1) \in DOMAIN users
  /\ users[DOC(1)].role = "patient"

\* C3 as stated: generateUserId with a string that is no role throws
\* "Invalid role" and changes no counter and no collection.
C3_InvalidRoleRejected ==
  [][(last'.op = "generateUserId" /\ last'.in.role \notin Roles) =>
        /\ ~last'.out.ok
        /\ last'.out.err = "Invalid role"
        /\ UNCHANGED <<collections, counters>>]_vars

\* the field is there and holds a value
Present(r, f) == f \in DOMAIN r /\ r[f] # Undefined

\* the user ids and passwords tried against authenticateUser
IdsTried == DOMAIN users \cup {ADM(2), DOC(2), PAT(2)}

PasswordsTried ==
  {"admin123", "doctor123", "patient123", "receptionist123",
   "secret1", "secret2", "secret4", "changed1", "wrong"}

\* wrong password or unknown user: absence; right password: the user's
\* fields, nothing but doctorInfo or patientInfo added
AuthenticatesOnPasswordOnly(id, p) ==
  LET r == authenticateUser(Cur, id, p)
  IN IF id \in DOMAIN users /\ users[id].password = p
     THEN /\ r # Undefined
          /\ \A f \in DOMAIN users[id] : r[f] = users[id][f]
          /\ DOMAIN r \subseteq DOMAIN users[id] \cup {"doctorInfo", "patientInfo"}
     ELSE r = Undefined

\* C4 as stated: authenticateUser returns absence on a wrong password or an
\* unknown user, and on the right password the user's fields with doctorInfo
\* present iff the role is doctor and patientInfo present iff it is patient.
C4_InfoFollowsRole ==
  \A id \in IdsTried, p \in PasswordsTried :
    /\ AuthenticatesOnPasswordOnly(id, p)
    /\ authenticateUser(Cur, id, p) # Undefined =>
         LET r == authenticateUser(Cur, id, p)
         IN /\ Present(r, "doctorInfo") <=> users[id].role = "doctor"
            /\ Present(r, "patientInfo") <=> users[id].role = "patient"

\* C4 amended: absence on a wrong password or an unknown user; on the right
\* password the user's fields, with doctorInfo present iff the role is doctor
\* and a Doctor record is stored under the user's id (and then it is that
\* record), and patientInfo likewise for patient.
C4_InfoFollowsRoleAndRecord ==
  \A id \in IdsTried, p \in PasswordsTried :
    /\ AuthenticatesOnPasswordOnly(id, p)
    /\ authenticateUser(Cur, id, p) # Undefined =>
         LET r == authenticateUser(Cur, id, p)
         IN /\ Present(r, "doctorInfo") <=>
                 (users[id].role = "doctor" /\ id \in DOMAIN doctors)
            /\ Present(r, "doctorInfo") => r.doctorInfo = doctors[id]
            /\ Present(r, "patientInfo") <=>
                 (users[id].role = "patient" /\ id \in DOMAIN patients)
            /\ Present(r, "patientInfo") => r.patientInfo = patients[id]

\* a doctor who has a Doctor record and a doctor who has none both
\* authenticate, and a wrong password for the first is turned away
C4_Witness ==
  /\ DOC(1) \in DOMAIN doctors
  /\ Present(authenticateUser(Cur, DOC(1), "doctor123"), "doctorInfo")
  /\ authenticateUser(Cur, DOC(1), "wrong") = Undefined
  /\ DOC(2) \in DOMAIN users
  /\ DOC(2) \notin DOMAIN doctors
  /\ authenticateUser(Cur, DOC(2), "secret1") # Undefined
  /\ ~Present(authenticateUser(Cur, DOC(2), "secret1"), "doctorInfo")

\* the last operation was a createUser that returned a record
UserCreated == last.op = "createUser" /\ last.out.ok

\* C9: the record createUser returned is the record getUser finds under its
\* id, and it carries the input's fields, a generated id of the role's
\* prefix, createdAt, and the input's status or active when omitted.
C9_CreateUserRoundTrip ==
  UserCreated =>
    LET u == last.out.val
        in == last.in
    IN /\ getUser(Cur, u.id) = u
       /\ {"id", "status", "createdAt"} \subseteq DOMAIN u
       /\ \A f \in DOMAIN in \ {"status"} : u[f] = in[f]
       /\ u.status = IF "status" \in DOMAIN in THEN in.status ELSE "active"
       /\ WellFormedId(u.id, in.role)

\* createUser stored Ann, whose input has no status, as active, after it
\* stored Bob as inactive
C9_Witness ==
  /\ UserCreated
  /\ last.in = AnnDoctor
  /\ last.out.val.status = "active"
  /\ \E k \in DOMAIN users : users[k].firstName = "Bob" /\ users[k].status = "inactive"

\* C10 as stated: no two stored users share an e-mail address.
C10_EmailsUnique ==
  \A a, b \in DOMAIN users : users[a].email = users[b].email => a = b

\* the ids of the appointments getAppointments lists
ListedIds == {getAppointments(impl, Cur)[i].id :
                i \in 1..Len(getAppointments(impl, Cur))}

\* the Patient record, the Doctor record and the Doctor's User of an
\* appointment are all stored
LinksExist(a) ==
  /\ a.patientId \in DOMAIN patients
  /\ a.doctorId \in DOMAIN doctors
  /\ doctors[a.doctorId].userId \in DOMAIN users

\* C5 as stated: an appointment is listed if and only if its Patient record,
\* its Doctor record and the Doctor's User exist.
C5_ListedIffLinksExist ==
  \A k \in DOMAIN appointments : k \in ListedIds <=> LinksExist(appointments[k])

\* the fields of an appointment other than status
AppointmentFrame ==
  {"id", "patientId", "doctorId", "date", "time", "duration", "reason", "type",
   "notes", "createdAt"}

\* the step was updateAppointment(id, {status: "cancelled"}) on a stored id
Cancelling ==
  /\ last'.op = "updateAppointment"
  /\ last'.in.updates = [status |-> "cancelled"]
  /\ last'.in.id \in DOMAIN appointments

\* C7: updateAppointment(id, {status: "cancelled"}) on a stored appointment
\* returns it with status cancelled and every other field as before, and
\* leaves the other appointments, the other collections and the counters
\* unchanged.
C7_CancelChangesOnlyStatus ==
  [][Cancelling =>
       LET id == last'.in.id
       IN /\ last'.out.ok
          /\ DOMAIN appointments' = DOMAIN appointments
          /\ DOMAIN appointments'[id] = DOMAIN appointments[id]
          /\ appointments'[id].status = "cancelled"
          /\ \A f \in DOMAIN appointments[id] \ {"status"} :
                appointments'[id][f] = appointments[id][f]
          /\ AppointmentFrame \subseteq DOMAIN appointments[id]
          /\ \A k \in DOMAIN appointments \ {id} : appointments'[k] = appointments[k]
          /\ last'.out.val = appointments'[id]
          /\ UNCHANGED <<users, doctors, patients, specializations, counters>>]_vars

\* the confirmed appointment with notes has just been cancelled while a
\* second appointment is stored
C7_Witness ==
  /\ last.op = "updateAppointment"
  /\ last.out.ok
  /\ last.out.val # Undefined
  /\ last.out.val.status = "cancelled"
  /\ last.out.val.notes = "bring results"
  /\ last.out.val.duration = 45
  /\ Cardinality(DOMAIN appointments) = 2

\* the ids asked for in the filtered listings
PatientIdsAsked == {PAT(1), PAT(2), PAT(3), DOC(1)}

DoctorIdsAsked == {DOC(1), DOC(2), DOC(3), PAT(1)}

\* r holds, in the order of all, exactly the elements of all that pass Keep
IsSelection(r, all, Keep(_)) ==
  LET M == {j \in 1..Len(all) : Keep(all[j])}
  IN /\ Len(r) = Cardinality(M)
     /\ \A j \in M : r[Cardinality({m \in M : m <= j})] = all[j]

\* C8: getAppointmentsByPatient(P) is exactly the elements of
\* getAppointments() whose patientId is P, in their order, empty when none
\* match; getAppointmentsByDoctor(D) likewise on doctorId.
C8_FilteredListings ==
  LET all == getAppointments(impl, Cur)
  IN /\ \A P \in PatientIdsAsked :
          LET keep(a) == a.patientId = P
          IN IsSelection(getAppointmentsByPatient(impl, Cur, P), all, keep)
     /\ \A D \in DoctorIdsAsked :
          LET keep(a) == a.doctorId = D
          IN IsSelection(getAppointmentsByDoctor(impl, Cur, D), all, keep)

\* two appointments of different patients and doctors are listed, and the
\* listings of PAT0002 and of DOC0001 each hold one of them
C8_Witness ==
  /\ Len(getAppointments(impl, Cur)) = 2
  /\ Len(getAppointmentsByPatient(impl, Cur, PAT(2))) = 1
  /\ Len(getAppointmentsByDoctor(impl, Cur, DOC(1))) = 1
  /\ getAppointmentsByPatient(impl, Cur, PAT(3)) = <<>>

\* the last operation was createDoctor / createPatient
DoctorCreated == last.op = "createDoctor"

PatientCreated == last.op = "createPatient"

\* the entries of a joined listing whose user has the id U
EntriesOfUser(listing, U) == {e \in listing : e.user.id = U}

\* C6 as stated: createDoctor({userId: U}) succeeds; getDoctors() then has
\* exactly one entry whose user.id is U when user U exists; when it does not,
\* getDoctor(U) returns the new doctor and getDoctors() omits it.  The same
\* for createPatient and getPatients.
C6_CreateThenList ==
  /\ DoctorCreated =>
       LET U == last.in.userId
       IN /\ last.out.ok
          /\ getDoctor(Cur, U) = last.out.val
          /\ Cardinality(EntriesOfUser(getDoctors(impl, Cur), U)) =
               IF U \in DOMAIN users THEN 1 ELSE 0
  /\ PatientCreated =>
       LET U == last.in.userId
       IN /\ last.out.ok
          /\ getPatient(Cur, U) = last.out.val
          /\ Cardinality(EntriesOfUser(getPatients(impl, Cur), U)) =
               IF U \in DOMAIN users THEN 1 ELSE 0

\* what a create of the profile of user U must do, given the profiles before
\* and after, the joined listing after, and whether the store is durable
ProfileCreated(U, before, after, listing, durable) ==
  /\ last'.out.ok <=> (~durable \/ (U \in DOMAIN users /\ U \notin DOMAIN before))
  /\ ~last'.out.ok => after = before
  /\ last'.out.ok =>
       /\ U \in DOMAIN after
       /\ after[U] = last'.out.val
       /\ last'.out.val.id = U
       /\ \A k \in DOMAIN before \ {U} : k \in DOMAIN after /\ after[k] = before[k]
       /\ Cardinality({e \in listing : e.id = U}) =
            IF U \in DOMAIN users THEN 1 ELSE 0
       /\ \A e \in listing : e.id = U => e.user.id = U /\ e.user = users[U]
       /\ (\A k \in DOMAIN after \ {U} : after[k].userId # U) =>
            Cardinality(EntriesOfUser(listing, U)) =
              IF U \in DOMAIN users THEN 1 ELSE 0

\* C6 amended: in memory createDoctor({userId: U}) always succeeds and stores
\* the doctor under U (replacing one stored there); the durable store
\* accepts it only when user U exists and no doctor is stored under U, and
\* otherwise fails and stores nothing.  After a success getDoctor(U) is the
\* new doctor and getDoctors() has exactly one entry of id U, joined to user
\* U, when user U exists and none when it does not; it is the only entry
\* with user.id = U unless updateDoctor pointed another doctor at U.  The
\* same for createPatient and getPatients.
C6_CreateThenListPerStore ==
  [][/\ last'.op = "createDoctor" =>
          /\ ProfileCreated(last'.in.userId, doctors, doctors',
                            getDoctors(impl, Cur'), impl = "db")
          /\ last'.out.ok => getDoctor(Cur', last'.in.userId) = last'.out.val
          /\ UNCHANGED <<users, patients>>
     /\ last'.op = "createPatient" =>
          /\ ProfileCreated(last'.in.userId, patients, patients',
                            getPatients(impl, Cur'), impl = "db")
          /\ last'.out.ok => getPatient(Cur', last'.in.userId) = last'.out.val
          /\ UNCHANGED <<users, doctors>>]_vars

\* in memory a doctor was created for DOC0002 while no such user exists:
\* getDoctor finds it and getDoctors lists only the seeded doctor
C6_Witness ==
  /\ impl = "mem"
  /\ DoctorCreated
  /\ last.out.ok
  /\ last.in.userId = DOC(2)
  /\ DOC(2) \notin DOMAIN users
  /\ getDoctor(Cur, DOC(2)) = last.out.val
  /\ Cardinality(getDoctors(impl, Cur)) = 1
  /\ EntriesOfUser(getDoctors(impl, Cur), DOC(1)) # {}

\* the names of the six default specializations
DefaultNames ==
  {"Cardiology", "Neurology", "Orthopedics", "Pediatrics", "Dermatology",
   "Psychiatry"}

\* the seed users: id, role and e-mail
SeedIdentities ==
  {<<ADM(1), "admin", "admin@hospital.com">>,
   <<DOC(1), "doctor", "doctor@hospital.com">>,
   <<REC(1), "receptionist", "receptionist@hospital.com">>,
   <<PAT(1), "patient", "patient@hospital.com">>}

\* the stored specializations of a default name in a catalogue
OfName(catalogue, n) == {k \in DOMAIN catalogue : catalogue[k].name = n}

\* the collections u, d, p, s hold the seed set exactly once
HoldsSeed(u, d, p, s) ==
  /\ \A t \in SeedIdentities :
        /\ t[1] \in DOMAIN u
        /\ u[t[1]].role = t[2]
        /\ u[t[1]].email = t[3]
        /\ \A k \in DOMAIN u : u[k].email = t[3] => k = t[1]
  /\ DOC(1) \in DOMAIN d /\ d[DOC(1)].userId = DOC(1)
  /\ PAT(1) \in DOMAIN p /\ p[PAT(1)].userId = PAT(1)
  /\ \A n \in DefaultNames : Cardinality(OfName(s, n)) = 1

HoldsSeedOnce == HoldsSeed(users, doctors, patients, specializations)

\* C11 as stated: after any number of bootstrap runs the store holds the
\* seed set exactly once.
C11_SeededOnceAfterBootstrap ==
  last.op = "initializeDefaults" => HoldsSeedOnce

\* a bootstrap run on a store with a user: nothing changes
BootstrapSkips ==
  /\ last'.out.ok
  /\ UNCHANGED <<collections, counters>>

\* a bootstrap run on a store without users: the four seed users and the two
\* profiles are written, and the six default specializations unless one of
\* their names is already stored, which ends the run with that error
BootstrapSeeds ==
  /\ DOMAIN users' = {t[1] : t \in SeedIdentities}
  /\ DOMAIN doctors' = {DOC(1)}
  /\ DOMAIN patients' = {PAT(1)}
  /\ \A k \in DOMAIN specializations :
        k \in DOMAIN specializations' /\ specializations'[k] = specializations[k]
  /\ IF \E n \in DefaultNames : OfName(specializations, n) # {}
     THEN /\ ~last'.out.ok
          /\ \A n \in DefaultNames :
                Cardinality(OfName(specializations', n)) <= 1
     ELSE /\ last'.out.ok
          /\ HoldsSeed(users', doctors', patients', specializations')
          /\ Cardinality(DOMAIN specializations') =
               Cardinality(DOMAIN specializations) + 6

\* C11 amended: the in-memory store is seeded once by its constructor.  A
\* durable bootstrap run on a store that holds a user changes nothing; on a
\* store with no user and none of the default specialization names it
\* writes the seed set exactly once; with no user but a default name
\* already stored it writes the seed users and profiles and then fails.
C11_BootstrapIdempotent ==
  /\ impl = "mem" => HoldsSeedOnce
  /\ [][last'.op = "initializeDefaults" =>
          IF DOMAIN users # {} THEN BootstrapSkips ELSE BootstrapSeeds]_vars

\* the durable store was seeded, Ann was created, and the bootstrap ran again
C11_Witness ==
  /\ impl = "db"
  /\ last.op = "initializeDefaults"
  /\ last.out.ok
  /\ HoldsSeedOnce
  /\ DOC(2) \in DOMAIN users
  /\ Cardinality(DOMAIN specializations) = 6

\* the admin the seed writes is stored
SeedAdminStored ==
  /\ ADM(1) \in DOMAIN users
  /\ users[ADM(1)].email = "admin@hospital.com"

\* C12: on a seeded store authenticateUser("ADM0001", "admin123") returns
\* the admin user with neither doctorInfo nor patientInfo, and
\* authenticateUser("ADM0001", "wrong") returns absence.
C12_SeedAdminAuthenticates ==
  SeedAdminStored =>
    LET r == authenticateUser(Cur, ADM(1), "admin123")
    IN /\ r # Undefined
       /\ r = users[ADM(1)]
       /\ r.id = ADM(1)
       /\ r.role = "admin"
       /\ ~Present(r, "doctorInfo")
       /\ ~Present(r, "patientInfo")
       /\ authenticateUser(Cur, ADM(1), "wrong") = Undefined

\* the durable store right after its bootstrap, the admin authenticating
C12_Witness ==
  /\ impl = "db"
  /\ last.op = "initializeDefaults"
  /\ SeedAdminStored
  /\ authenticateUser(Cur, ADM(1), "admin123") # Undefined
  /\ authenticateUser(Cur, ADM(1), "wrong") = Undefined
  /\ DOC(1) \in DOMAIN doctors

\* the step was a durable createSpecialization
DurableSpecializationCall ==
  impl = "db" /\ last'.op = "createSpecialization"

\* C13: in the durable variant createSpecialization with a name a stored
\* specialization has fails with the constraint violation and leaves the
\* specializations (and every other collection) as they were; with a new
\* name it stores and returns the specialization.
C13_DuplicateNameRejected ==
  [][DurableSpecializationCall =>
       IF OfName(specializations, last'.in.name) # {}
       THEN /\ ~last'.out.ok
            /\ last'.out.err = "specializations_name_unique"
            /\ UNCHANGED collections
       ELSE /\ last'.out.ok
            /\ last'.out.val.name = last'.in.name
            /\ Cardinality(OfName(specializations', last'.in.name)) = 1
            /\ specializations'[last'.out.val.id] = last'.out.val
            /\ \A k \in DOMAIN specializations :
                  k \in DOMAIN specializations'
                  /\ specializations'[k] = specializations[k]]_vars

\* a second durable createSpecialization of Oncology has just failed
C13_Witness ==
  /\ impl = "db"
  /\ last.op = "createSpecialization"
  /\ ~last.out.ok
  /\ last.in.name = "Oncology"
  /\ Cardinality(OfName(specializations, "Oncology")) = 1

\* the ids asked of the getters: stored ones and unknown ones
UserIdsAsked == {ADM(1), ADM(2), DOC(1), DOC(2), DOC(3), PAT(1), PAT(2), PAT(3)}

AppointmentIdsAsked == 0..(MaxAppointments + 1)

\* a getter asked for an id that is not stored answers undefined
GetMissesAreUndefined ==
  /\ \A id \in UserIdsAsked :
        /\ id \notin DOMAIN users => getUser(Cur, id) = Undefined
        /\ id \notin DOMAIN doctors => getDoctor(Cur, id) = Undefined
        /\ id \notin DOMAIN patients => getPatient(Cur, id) = Undefined
  /\ \A id \in AppointmentIdsAsked :
        id \notin DOMAIN appointments => getAppointment(Cur, id) = Undefined

\* the collection an update operation works on, before the step
CollectionOf(op) ==
  CASE op = "updateUser" -> users
    [] op = "updateDoctor" -> doctors
    [] op = "updatePatient" -> patients
    [] op = "updateAppointment" -> appointments

UpdateOps == {"updateUser", "updateDoctor", "updatePatient", "updateAppointment"}

\* the step was an update of an id its collection does not hold
UpdateMissed ==
  /\ last'.op \in UpdateOps
  /\ last'.in.id \notin DOMAIN CollectionOf(last'.op)

\* C14: get<Entity>(id) for an id that is not stored is undefined, and
\* update<Entity>(id, updates) for such an id returns undefined without
\* raising and changes no collection and no counter.
C14_MissesReturnUndefined ==
  /\ []GetMissesAreUndefined
  /\ [][UpdateMissed =>
          /\ last'.out.ok
          /\ last'.out.val = Undefined
          /\ UNCHANGED <<collections, counters>>]_vars

\* updateUser of the unknown ADM0002 has just returned undefined in memory
C14_Witness ==
  /\ impl = "mem"
  /\ last.op = "updateUser"
  /\ last.in.id = ADM(2)
  /\ ADM(2) \notin DOMAIN users
  /\ last.out.ok
  /\ last.out.val = Undefined
  /\ getUser(Cur, ADM(2)) = Undefined

ProfileUpdateOps == {"updateUser", "updateDoctor", "updatePatient"}

\* the step was updateUser, updateDoctor or updatePatient on a stored id
ProfileUpdated ==
  /\ last'.op \in ProfileUpdateOps
  /\ last'.in.id \in DOMAIN CollectionOf(last'.op)

\* the collection an update operation works on, after the step
CollectionAfter(op) ==
  CASE op = "updateUser" -> users'
    [] op = "updateDoctor" -> doctors'
    [] op = "updatePatient" -> patients'
    [] op = "updateAppointment" -> appointments'

\* the collections the operation does not work on are unchanged
OtherCollectionsKept(op) ==
  /\ op # "updateUser" => UNCHANGED users
  /\ op # "updateDoctor" => UNCHANGED doctors
  /\ op # "updatePatient" => UNCHANGED patients
  /\ op # "updateAppointment" => UNCHANGED appointments
  /\ UNCHANGED <<specializations, counters>>

\* the record under id is the old one with the supplied fields laid over it,
\* it is what the call returned, and nothing else changed
MergedInPlace ==
  LET op == last'.op
      id == last'.in.id
      updates == last'.in.updates
      before == CollectionOf(op)
      after == CollectionAfter(op)
  IN /\ last'.out.ok
     /\ DOMAIN after = DOMAIN before
     /\ DOMAIN after[id] = DOMAIN before[id] \cup DOMAIN updates
     /\ \A f \in DOMAIN updates : after[id][f] = updates[f]
     /\ \A f \in DOMAIN before[id] \ DOMAIN updates : after[id][f] = before[id][f]
     /\ last'.out.val = after[id]
     /\ \A k \in DOMAIN before \ {id} : after[k] = before[k]
     /\ OtherCollectionsKept(op)

\* C15 as stated: updateUser, updateDoctor and updatePatient on a stored id
\* lay the supplied fields over the record, return it, and change nothing
\* else.
C15_UpdateMerges == [][ProfileUpdated => MergedInPlace]_vars

\* the durable store refuses the update: an e-mail another user has, or a
\* userId no user has
DurableStoreRefuses ==
  LET op == last'.op
      id == last'.in.id
      updates == last'.in.updates
  IN /\ impl = "db"
     /\ \/ /\ op = "updateUser"
           /\ "email" \in DOMAIN updates
           /\ \E k \in DOMAIN users \ {id} : users[k].email = updates.email
        \/ /\ op \in {"updateDoctor", "updatePatient"}
           /\ "userId" \in DOMAIN updates
           /\ updates.userId \notin DOMAIN users

\* C15 amended: the update merges as stated unless the durable store
\* refuses it (an e-mail another user has, a userId no user has); a refused
\* update fails with the constraint violation and changes nothing.
C15_UpdateMergesUnlessRefused ==
  [][ProfileUpdated =>
       IF DurableStoreRefuses
       THEN ~last'.out.ok /\ UNCHANGED <<collections, counters>>
       ELSE MergedInPlace]_vars

\* the seeded doctor's experience was just updated and the licence kept
C15_Witness ==
  /\ last.op = "updateDoctor"
  /\ last.out.ok
  /\ last.in.updates = [experience |-> 7]
  /\ last.out.val # Undefined
  /\ doctors[DOC(1)].experience = 7
  /\ doctors[DOC(1)].licenseNumber = "MD123456"
  /\ last.out.val = doctors[DOC(1)]

\* every id a getter answers for before the step, it answers for after it
StoredStaysStored ==
  /\ \A k \in DOMAIN users : getUser(Cur', k) # Undefined
  /\ \A k \in DOMAIN doctors : getDoctor(Cur', k) # Undefined
  /\ \A k \in DOMAIN patients : getPatient(Cur', k) # Undefined
  /\ \A k \in DOMAIN appointments : getAppointment(Cur', k) # Undefined

StatusMoves ==
  {<<"scheduled", "confirmed">>, <<"confirmed", "in-progress">>,
   <<"in-progress", "completed">>, <<"scheduled", "cancelled">>,
   <<"confirmed", "cancelled">>, <<"in-progress", "cancelled">>}

\* C17 as stated: a stored appointment's status stays or moves along the
\* graph; once completed or cancelled it never changes.
C17_StatusFollowsGraph ==
  [][\A k \in DOMAIN appointments :
        \/ appointments'[k].status = appointments[k].status
        \/ <<appointments[k].status, appointments'[k].status>> \in StatusMoves]_vars

\* the caller's call of createUser has generated its id and not yet stored
\* the user: the counter moved on and the record is missing
PartlyApplied(c) ==
  /\ calls[c].op = "createUser"
  /\ calls[c].pc = "awaiting"
  /\ calls[c].id \notin DOMAIN users
  /\ MemCounter(Cur, calls[c].in.role) > IdNumber(calls[c].id)

\* the calls of createUser of two callers for one role that came to an id
SameRoleCreates ==
  {p \in Callers \X Callers :
     /\ p[1] # p[2]
     /\ calls[p[1]].op = "createUser" /\ calls[p[2]].op = "createUser"
     /\ calls[p[1]].in.role = calls[p[2]].in.role
     /\ calls[p[1]].id # Undefined /\ calls[p[2]].id # Undefined}

\* two calls of createUser for one role got distinct ids, and once both are
\* done each one's record is stored under its id
DistinctIdsAndRecords ==
  \A p \in SameRoleCreates :
    /\ calls[p[1]].id # calls[p[2]].id
    /\ calls[p[1]].pc = "done" /\ calls[p[2]].pc = "done" =>
         /\ calls[p[1]].out.ok /\ calls[p[2]].out.ok
         /\ users[calls[p[1]].id] = calls[p[1]].out.val
         /\ users[calls[p[2]].id] = calls[p[2]].out.val

\* a caller's createUser starts and reads the counter that another caller's
\* partly applied createUser has moved
ObservesPartlyApplied ==
  \E c \in Callers :
    /\ calls[c].pc = "idle"
    /\ calls'[c].op = "createUser"
    /\ \E d \in Callers \ {c} :
         PartlyApplied(d) /\ calls[d].in.role = calls'[c].in.role

\* C18 as stated: in memory no call observes the partly applied mutation of
\* another call, and calls of createUser for one role at the same time get
\* distinct ids and store distinct records.
C18_MemOperationsAtomic ==
  /\ [](impl = "mem" => DistinctIdsAndRecords)
  /\ [][impl = "mem" => ~ObservesPartlyApplied]_vars

\* the second half of C18 alone: distinct ids and distinct records in memory
C18_MemDistinctIds == impl = "mem" => DistinctIdsAndRecords

\* two durable calls of createUser for one role that computed the same id and
\* are both done
SameIdCreates ==
  {p \in SameRoleCreates :
     /\ impl = "db"
     /\ calls[p[1]].id = calls[p[2]].id
     /\ calls[p[1]].pc = "done" /\ calls[p[2]].pc = "done"}

\* the call returned the row stored under its id
Inserted(c) ==
  /\ calls[c].out.ok
  /\ calls[c].id \in DOMAIN users
  /\ users[calls[c].id] = calls[c].out.val

\* the call failed with a constraint violation of the users table
Rejected(c) ==
  /\ ~calls[c].out.ok
  /\ calls[c].out.err \in {"users_pkey", "users_email_unique"}

\* C19 as stated: of two durable createUser calls that computed the same id
\* exactly one inserts its row and the other fails with a constraint
\* violation.
C19_ExactlyOneInsertSucceeds ==
  \A p \in SameIdCreates :
    \/ Inserted(p[1]) /\ Rejected(p[2])
    \/ Inserted(p[2]) /\ Rejected(p[1])

\* some other user already has the e-mail the call carries
EmailHeldByAnother(c) == EmailTaken(Cur, calls[c].id, calls[c].in.email)

\* C19 amended: of two durable createUser calls that computed the same id at
\* most one inserts its row, and then the row stored under the id is that
\* call's; every call that does not insert fails with a constraint violation
\* of the users table; both fail only when a third writer stored the id
\* first or each of the two carries an e-mail another user has.
C19_AtMostOneInsertSucceeds ==
  \A p \in SameIdCreates :
    /\ Inserted(p[1]) \/ Rejected(p[1])
    /\ Inserted(p[2]) \/ Rejected(p[2])
    /\ ~(calls[p[1]].out.ok /\ calls[p[2]].out.ok)
    /\ Rejected(p[1]) /\ Rejected(p[2]) /\ calls[p[1]].id \notin DOMAIN users =>
         /\ calls[p[1]].out.err = "users_email_unique"
         /\ calls[p[2]].out.err = "users_email_unique"
         /\ EmailHeldByAnother(p[1]) /\ EmailHeldByAnother(p[2])

\* two durable calls computed PAT0001 on the empty table; one inserted its
\* row and the other was refused by the primary key
C19_Witness ==
  /\ impl = "db"
  /\ calls["c1"].op = "createUser" /\ calls["c2"].op = "createUser"
  /\ calls["c1"].pc = "done" /\ calls["c2"].pc = "done"
  /\ calls["c1"].id = PAT(1) /\ calls["c2"].id = PAT(1)
  /\ calls["c1"].in = CarlPatient /\ calls["c2"].in = BobPatient
  /\ Inserted("c2")
  /\ ~calls["c1"].out.ok /\ calls["c1"].out.err = "users_pkey"

\* two calls of updateAppointment on one id that was stored when each was
\* applied, both done, the first of the pair applied before the second
RacedUpdates ==
  {p \in Callers \X Callers :
     /\ calls[p[1]].op = "updateAppointment" /\ calls[p[2]].op = "updateAppointment"
     /\ calls[p[1]].pc = "done" /\ calls[p[2]].pc = "done"
     /\ calls[p[1]].in.id = calls[p[2]].in.id
     /\ calls[p[1]].before # Undefined /\ calls[p[2]].before # Undefined
     /\ calls[p[1]].at < calls[p[2]].at}

\* the stored record holds, field by field, the value of the later call's
\* fields, else of the earlier call's fields, else the value from before both
LastWriteWins(stored, before, earlier, later) ==
  /\ DOMAIN stored = DOMAIN before \cup DOMAIN earlier \cup DOMAIN later
  /\ \A f \in DOMAIN stored :
       stored[f] = IF f \in DOMAIN later THEN later[f]
                   ELSE IF f \in DOMAIN earlier THEN earlier[f]
                   ELSE before[f]

RefusedUpdate(c) ==
  /\ impl = "db"
  /\ "doctorId" \in DOMAIN calls[c].in.updates
  /\ calls[c].in.updates.doctorId \notin DOMAIN doctors

\* the fields of the call that were written: none when it was refused
Written(c) == IF RefusedUpdate(c) THEN Empty ELSE calls[c].in.updates

OptionalDefaults(op) ==
  CASE op = "createAppointment" ->
         [status |-> "scheduled", type |-> "consultation", duration |-> 30,
          notes |-> Null]
    [] op = "createDoctor" -> [experience |-> 0]
    [] op = "createSpecialization" -> [description |-> Null]

\* the last operation was one of the three creates and returned a record
CreatedWithDefaults ==
  /\ last.op \in {"createAppointment", "createDoctor", "createSpecialization"}
  /\ last.out.ok

\* C21 as stated: the record createAppointment, createDoctor or
\* createSpecialization returns has every supplied field with the supplied
\* value, and the default in every optional field that was omitted.
C21_SuppliedValuesStored ==
  CreatedWithDefaults =>
    /\ \A f \in DOMAIN last.in : last.out.val[f] = last.in[f]
    /\ \A f \in DOMAIN OptionalDefaults(last.op) \ DOMAIN last.in :
         last.out.val[f] = OptionalDefaults(last.op)[f]

\* the next-id counters exceed every stored key
CountersExceedKeys ==
  /\ \A k \in DOMAIN appointments : currentAppointmentId > k
  /\ \A k \in DOMAIN specializations : currentSpecializationId > k

\* the step was a createAppointment or createSpecialization that returned a
\* record: its id is greater than every key stored before and the records
\* stored before are still there
AssignsGreaterId ==
  /\ last'.op = "createAppointment" /\ last'.out.ok =>
       /\ \A k \in DOMAIN appointments : last'.out.val.id > k
       /\ \A k \in DOMAIN appointments :
            k \in DOMAIN appointments' /\ appointments'[k] = appointments[k]
  /\ last'.op = "createSpecialization" /\ last'.out.ok =>
       /\ \A k \in DOMAIN specializations : last'.out.val.id > k
       /\ \A k \in DOMAIN specializations :
            k \in DOMAIN specializations' /\ specializations'[k] = specializations[k]

\* C22 as stated: createAppointment and createSpecialization assign an id
\* greater than every id in the collection and overwrite nothing, and in
\* every reachable state the next-id counter exceeds every stored key.
C22_IntegerIdsIncrease ==
  /\ []CountersExceedKeys
  /\ [][AssignsGreaterId]_vars

\* the first half of C22 alone: a create assigns a greater id and overwrites
\* nothing
C22_CreatesAssignGreaterIds == [][AssignsGreaterId]_vars

\* C23 as stated: every stored doctor and every stored patient has its
\* owning user's id as its id.
C23_ProfileIdIsUserId ==
  /\ \A k \in DOMAIN doctors : doctors[k].id = doctors[k].userId
  /\ \A k \in DOMAIN patients : patients[k].id = patients[k].userId

\* the last step answered a request
Answered ==
  last.op \in {"POST /api/auth/login", "GET /api/users/:id",
               "POST /api/appointments", "PATCH /api/appointments/:id"}

\* C24 as stated: a request whose validation threw is answered 400, one
\* whose repository call threw 500, and one whose get or update returned
\* absence 404.
C24_StatusFollowsOutcome ==
  Answered =>
    /\ last.prev = Throw(ZodError) => last.out.val.status = 400
    /\ ~last.prev.ok /\ last.prev # Throw(ZodError) => last.out.val.status = 500
    /\ /\ last.op \in {"GET /api/users/:id", "PATCH /api/appointments/:id"}
       /\ last.prev = Ok(Undefined)
       => last.out.val.status = 404

\* C25 as stated: after the same accepted calls the listings of the two
\* stores are the same, with the same user attached to every appointment.
C25_StoresListTheSame ==
  /\ getDoctors("mem", Cur) = getDoctors("db", twin)
  /\ getPatients("mem", Cur) = getPatients("db", twin)
  /\ getAppointments("mem", Cur) = getAppointments("db", twin)

\* the part of C25 about doctors and patients alone
C25_ProfilesListTheSame ==
  /\ getDoctors("mem", Cur) = getDoctors("db", twin)
  /\ getPatients("mem", Cur) = getPatients("db", twin)

\* C26 as stated: a caller's operation on a repository just constructed runs
\* only when the four seed users, the two seed profiles and the six
\* specializations are stored.
C26_SeedPresentForCallers ==
  [][boot' = boot => HoldsSeedOnce]_vars

\* C27 as stated: every stored record has the key it is stored under as its
\* id.
C27_IdIsKey ==
  /\ \A k \in DOMAIN users : getUser(Cur, k).id = k
  /\ \A k \in DOMAIN doctors : getDoctor(Cur, k).id = k
  /\ \A k \in DOMAIN patients : getPatient(Cur, k).id = k
  /\ \A k \in DOMAIN appointments : getAppointment(Cur, k).id = k

\* C27 for the durable store alone
C27_DurableIdIsKey == impl = "db" => C27_IdIsKey

\* the profiles the two creating routes write, by the name of the route
Profiles(route, ds, ps) ==
  IF route = "POST /api/doctors" THEN DOMAIN ds ELSE DOMAIN ps

CreatingRoutes == {"POST /api/auth/register", "POST /api/doctors"}

\* a creating route answers in this step
Creates == last' # last /\ last'.op \in CreatingRoutes

\* the users the step adds are the profiles it writes, key for key
InStep ==
  LET newUsers == (DOMAIN users') \ (DOMAIN users)
  IN /\ \A id \in newUsers : id \in Profiles(last'.op, doctors', patients')
     /\ Profiles(last'.op, doctors', patients')
          \ Profiles(last'.op, doctors, patients) \subseteq newUsers
     /\ IF last'.op = "POST /api/doctors"
        THEN patients' = patients
        ELSE doctors' = doctors

\* the request passes its schema and carries an e-mail some user already has
EmailRegistered ==
  /\ IF last'.op = "POST /api/doctors"
     THEN ValidDoctor(last'.in)
     ELSE ValidRegistration(last'.in)
  /\ getUserByEmail(Cur, last'.in.email) # Undefined

Recreates ==
  /\ last' # last
  /\ \/ last'.op = "createDoctor" /\ last'.in.userId \in DOMAIN doctors
     \/ last'.op = "createPatient" /\ last'.in.userId \in DOMAIN patients

\* C29: createDoctor (createPatient) for a userId that already has a stored
\* doctor (patient) record leaves that record as getDoctor (getPatient)
\* returned it before
C29_ExistingProfileKept ==
  [][Recreates =>
       /\ MapGet(doctors', last'.in.userId) = MapGet(doctors, last'.in.userId)
       /\ MapGet(patients', last'.in.userId) = MapGet(patients, last'.in.userId)]_vars

\* C29 for the durable store alone: the primary key refuses the second record
C29_DurableProfileKept ==
  [][(impl = "db" /\ Recreates) =>
       /\ ~last'.out.ok
       /\ UNCHANGED <<doctors, patients>>]_vars

\* the stored users whose status is inactive
InactiveUsers ==
  {id \in DOMAIN users :
     "status" \in DOMAIN users[id] /\ users[id].status = "inactive"}

\* C30: for every stored user whose status is inactive, authenticateUser
\* returns absence, for the stored password as for any other
C30_InactiveNeverAuthenticates ==
  \A id \in InactiveUsers :
  \A p \in PasswordsTried \cup {users[id].password} :
    authenticateUser(Cur, id, p) = Undefined

\* what holds instead: an inactive user is authenticated exactly as an active
\* one, on the stored password alone
C30_InactiveAuthenticatesOnPassword ==
  \A id \in InactiveUsers :
  \A p \in PasswordsTried \cup {users[id].password} :
    AuthenticatesOnPasswordOnly(id, p)

=============================================================================
